---------------------------- MODULE Spec2Model ----------------------------
(***************************************************************************)
(* A model of the client-side behaviour of the gong-poc dashboard pages:   *)
(*   - the AIMS lifecycle pipeline page  (app/aims/lifecycle/page.tsx)     *)
(*   - the onboarding status detail view (app/onboarding/status/page.tsx)  *)
(*   - the governance dashboard and the knowledge graph page               *)
(*   - the model routing playground      (app/governance/routing/page.tsx) *)
(*   - the audit log                     (app/governance/page.tsx)         *)
(*   - the scoring explorer              (unnamed/part_006)                *)
(*   - the new-hire form                 (app/onboarding/status/page.tsx)  *)
(* Each page is a state machine of its React state, its react-query cache  *)
(* and the requests it has in flight; the backend is the environment.      *)
(* Every page has a specification of its own (SpecLifecycle, SpecStatus,   *)
(* ...) in which the other pages stay in their initial state.              *)
(***************************************************************************)
EXTENDS Integers, Sequences, FiniteSets, TLC

VARIABLES
    \* ---- lifecycle page ----
    backend,        \* the backend's status of every project
    listQ,          \* query ["aims","projects"]: [status, fetching, data]
    detailQ,        \* queries ["aims","projects",id]: id -> [status, fetching, data, stale]
    selectedId,     \* useState selectedId (NoId for null)
    mutation,       \* transitionMutation: [status, id, to_status]
    nClicks,        \* how many times the Advance button was clicked
    lcOp,           \* the last operation of the lifecycle page
    \* ---- onboarding status detail view ----
    obBackend,      \* the backend's version of every onboarding's status
    viewId,         \* the id prop of the mounted StatusDetailView (NoId: not mounted)
    effectId,       \* the id the WebSocket effect last ran for (NoId: none, or cleaned up)
    sockets,        \* every WebSocket the view has constructed, in order
    wsRef,          \* wsRef.current: an index into sockets, 0 for null
    wsMessages,     \* useState wsMessages: the decision log
    statusQ,        \* queries ["onboarding-status", id]: id -> [status, fetching, data]
    obCount,        \* [msgs, changes]: message events and backend changes so far
    obOp,           \* the last operation of the status view: [op, socket, payload, invalidated]
    \* ---- governance dashboard and knowledge graph page ----
    govQ,           \* GovernanceDashboard's queries: name -> status
    kgQ,            \* KnowledgeGraphPage's queries: name -> [status, data]
    departmentFilter, \* useState departmentFilter ("" for all departments)
    pgOp,           \* the last operation of these pages
    \* ---- routing playground ----
    prompt,         \* useState prompt: a sequence of characters
    tier,           \* useState tier
    compareMode,    \* useState compareMode
    singleMutation, \* singleMutation: [status, data, variables]
    compareResults, \* useState compareResults: tier -> response or NoResponse
    compareLoading, \* useState compareLoading
    compareError,   \* useState compareError (NULL for null)
    batches,        \* the compare sends so far: [prompt, outcome: tier -> pending/fulfilled/rejected]
    rtOp,           \* the last operation of the playground: [op, batch, outcome]
    \* ---- audit log ----
    auditQ,         \* useQuery ["governance","audit"]: [status, data], data the entries array
    search,         \* useState search
    deptFilter,     \* useState deptFilter
    modelFilter,    \* useState modelFilter
    sortKey,        \* useState sortKey
    sortDir,        \* useState sortDir
    page,           \* useState page
    filtered,       \* the value of the filtered memo at the last render
    auOp,           \* whether the last operation was an export, and its file: [op, file]
    \* ---- scoring explorer ----
    scoreQ,         \* useQuery ["discovery-workflows"]: [status, fetching, data]
    weights,        \* useState weights, in steps of 0.05
    prevRanking,    \* useState prevRanking: the workflow ids in the order snapshotted
    isInitialLoad,  \* useRef isInitialLoad
    saveMutation,   \* saveMutation: [status, variables]
    scBackend,      \* the weights the backend holds
    rankedWorkflows, \* the value of the rankedWorkflows memo at the last render
    scOp,           \* whether the last operation of the scoring explorer was a slider move
    \* ---- new-hire form ----
    fullName,       \* useState name: a sequence of characters
    department,     \* useState department ("" while none is selected)
    role,           \* useState role: a sequence of characters
    startDate,      \* useState startDate ("" while no date is picked)
    validationError, \* useState validationError (NULL for null)
    triggerMutation, \* NewHirePage's mutation: [status, variables]
    pushedId,       \* the id router.push navigated to (NoId: the form is shown)
    nhOp            \* the last operation of the form: [op, sent]

lifecycleVars == <<backend, listQ, detailQ, selectedId, mutation, nClicks, lcOp>>

statusVars == <<obBackend, viewId, effectId, sockets, wsRef, wsMessages, statusQ,
                obCount, obOp>>

pagesVars == <<govQ, kgQ, departmentFilter, pgOp>>

routingVars == <<prompt, tier, compareMode, singleMutation, compareResults, compareLoading,
                 compareError, batches, rtOp>>

auditVars == <<auditQ, search, deptFilter, modelFilter, sortKey, sortDir, page, filtered, auOp>>

scoringVars == <<scoreQ, weights, prevRanking, isInitialLoad, saveMutation, scBackend,
                 rankedWorkflows, scOp>>

newHireVars == <<fullName, department, role, startDate, validationError, triggerMutation,
                 pushedId, nhOp>>

vars == <<lifecycleVars, statusVars, pagesVars, routingVars, auditVars, scoringVars,
          newHireVars>>

\* What an operation of one page leaves alone: the state of the other pages.
notLifecycle == <<statusVars, pagesVars, routingVars, auditVars, scoringVars, newHireVars>>
notStatus == <<lifecycleVars, pagesVars, routingVars, auditVars, scoringVars, newHireVars>>
notPages == <<lifecycleVars, statusVars, routingVars, auditVars, scoringVars, newHireVars>>
notRouting == <<lifecycleVars, statusVars, pagesVars, auditVars, scoringVars, newHireVars>>
notAudit == <<lifecycleVars, statusVars, pagesVars, routingVars, scoringVars, newHireVars>>
notScoring == <<lifecycleVars, statusVars, pagesVars, routingVars, auditVars, newHireVars>>
notNewHire == <<lifecycleVars, statusVars, pagesVars, routingVars, auditVars, scoringVars>>

(***************************************************************************)
(* Shared values                                                           *)
(***************************************************************************)
\* JavaScript null / undefined for a string-valued slot.
NULL == "<null>"

\* null for an id-valued slot (ids are positive).
NoId == 0

\* 0-based Array.prototype.indexOf: the first position of x in seq, -1 when absent.
IndexOf(seq, x) ==
    IF \E i \in 1..Len(seq) : seq[i] = x
    THEN (CHOOSE i \in 1..Len(seq) : seq[i] = x /\ \A j \in 1..(i - 1) : seq[j] # x) - 1
    ELSE -1

(***************************************************************************)
(* Governance dashboard and knowledge graph page: loading and failure      *)
(***************************************************************************)
GovQueries == {"costs", "forecast"}
KgQueries == {"fullGraph", "stats", "insights", "deptGraph"}

\* What a graph endpoint may answer: a graph without nodes, or one with nodes.
GraphData == {"empty", "nodes"}

\* Both pages have just mounted: every enabled query is being fetched; the
\* department query is disabled while no department is chosen.
PagesIdle ==
    /\ govQ = [q \in GovQueries |-> "loading"]
    /\ kgQ = [q \in KgQueries |->
                IF q = "deptGraph" THEN [status |-> "idle", data |-> NULL]
                ELSE [status |-> "loading", data |-> NULL]]
    /\ departmentFilter = ""
    /\ pgOp = "init"

PagesInit == PagesIdle

\* GovernanceDashboard's render: spinner, an ErrorBox, or the dashboard.
GovernanceView ==
    IF govQ["costs"] = "loading" \/ govQ["forecast"] = "loading" THEN "Spinner"
    ELSE IF govQ["costs"] = "error" THEN "ErrorBox: Failed to load cost data"
    ELSE IF govQ["forecast"] = "error" THEN "ErrorBox: Failed to load forecast data"
    ELSE "Dashboard"

\* activeGraph: the department's graph when one is chosen and loaded, else
\* the full graph, else a graph with no nodes and no links.
activeGraph ==
    LET source == IF departmentFilter # "" /\ kgQ["deptGraph"].data # NULL
                  THEN kgQ["deptGraph"].data ELSE kgQ["fullGraph"].data
    IN IF source = NULL THEN "empty" ELSE source

\* The graph canvas card: "Loading graph..." or the ForceGraph2D of activeGraph.
GraphCanvas ==
    IF kgQ["fullGraph"].status = "loading" THEN "Loading graph..."
    ELSE IF activeGraph = "empty" THEN "ForceGraph2D (no nodes)"
    ELSE "ForceGraph2D (nodes)"

\* The insight metric cards: the values, or "--" while insights is undefined.
InsightCards == IF kgQ["insights"].data # NULL THEN "values" ELSE "--"

\* Every element the knowledge graph page renders.
KnowledgeGraphView == {GraphCanvas, "metrics: " \o InsightCards}

\* A query of the governance dashboard is answered.
GovQueryOk(q) ==
    /\ govQ[q] = "loading"
    /\ govQ' = [govQ EXCEPT ![q] = "success"]
    /\ pgOp' = "govQueryOk"
    /\ UNCHANGED notPages
    /\ UNCHANGED <<kgQ, departmentFilter>>

GovQueryFail(q) ==
    /\ govQ[q] = "loading"
    /\ govQ' = [govQ EXCEPT ![q] = "error"]
    /\ pgOp' = "govQueryFail"
    /\ UNCHANGED notPages
    /\ UNCHANGED <<kgQ, departmentFilter>>

\* A query of the knowledge graph page is answered with data d.
KgQueryOk(q, d) ==
    /\ kgQ[q].status = "loading"
    /\ kgQ' = [kgQ EXCEPT ![q] = [status |-> "success", data |-> d]]
    /\ pgOp' = "kgQueryOk"
    /\ UNCHANGED notPages
    /\ UNCHANGED <<govQ, departmentFilter>>

KgQueryFail(q) ==
    /\ kgQ[q].status = "loading"
    /\ kgQ' = [kgQ EXCEPT ![q].status = "error"]
    /\ pgOp' = "kgQueryFail"
    /\ UNCHANGED notPages
    /\ UNCHANGED <<govQ, departmentFilter>>

\* The department select: its options come from the full graph's Department
\* nodes; choosing one enables the department query, which is then fetched.
SetDepartmentFilter(d) ==
    /\ d # departmentFilter
    /\ d # "" => kgQ["fullGraph"].data = "nodes"
    /\ departmentFilter' = d
    /\ kgQ' = IF d # "" THEN [kgQ EXCEPT !["deptGraph"].status = "loading"] ELSE kgQ
    /\ pgOp' = "setDepartmentFilter"
    /\ UNCHANGED notPages
    /\ UNCHANGED govQ

PagesNext ==
    \/ \E q \in GovQueries : GovQueryOk(q)
    \/ \E q \in GovQueries : GovQueryFail(q)
    \/ \E q \in KgQueries : \E d \in GraphData : KgQueryOk(q, d)
    \/ \E q \in KgQueries : KgQueryFail(q)
    \/ \E d \in {"", "engineering"} : SetDepartmentFilter(d)

(***************************************************************************)
(* Model routing playground                                                *)
(***************************************************************************)
Tiers == <<"simple", "moderate", "complex">>
TierSet == {Tiers[i] : i \in 1..Len(Tiers)}

\* Bound: the sends of a run.
MaxSends == 2

\* The prompts typed: empty, blank, and one with text between blanks.
Prompts == {<< >>, <<" ">>, <<" ", "a", " ">>}

RECURSIVE TrimStart(_)
TrimStart(str) == IF str # << >> /\ Head(str) = " " THEN TrimStart(Tail(str)) ELSE str

RECURSIVE TrimEnd(_)
TrimEnd(str) ==
    IF str # << >> /\ str[Len(str)] = " " THEN TrimEnd(SubSeq(str, 1, Len(str) - 1)) ELSE str

\* String.prototype.trim
Trim(str) == TrimEnd(TrimStart(str))

\* null in a response slot, and the ChatResponse the backend gives to the
\* request of send b for tier t.
NoResponse == [batch |-> 0, task_tier |-> NULL, message |-> << >>]
Response(b, t, msg) == [batch |-> b, task_tier |-> t, message |-> msg]

\* No outcome: the value of rtOp.outcome outside the completion of a send.
NoOutcome == [t \in TierSet |-> "none"]

AllFailedMessage == "All requests failed. Is the backend running?"

RoutingIdle ==
    /\ prompt = << >>
    /\ tier = "moderate"
    /\ compareMode = TRUE
    /\ singleMutation = [status |-> "idle", data |-> NoResponse, variables |-> NoResponse]
    /\ compareResults = [t \in TierSet |-> NoResponse]
    /\ compareLoading = FALSE
    /\ compareError = NULL
    /\ batches = << >>
    /\ rtOp = [op |-> "init", batch |-> 0, outcome |-> NoOutcome]

\* How many sends (compare batches and single requests) were started.
Sends == Len(batches)

\* onChange of the textarea.
SetPrompt(p) ==
    /\ p # prompt
    /\ prompt' = p
    /\ rtOp' = [op |-> "setPrompt", batch |-> 0, outcome |-> NoOutcome]
    /\ UNCHANGED notRouting
    /\ UNCHANGED <<tier, compareMode, singleMutation, compareResults, compareLoading,
                   compareError, batches>>

\* The tier buttons, rendered only outside compare mode.
SetTier(t) ==
    /\ ~compareMode /\ t # tier
    /\ tier' = t
    /\ rtOp' = [op |-> "setTier", batch |-> 0, outcome |-> NoOutcome]
    /\ UNCHANGED notRouting
    /\ UNCHANGED <<prompt, compareMode, singleMutation, compareResults, compareLoading,
                   compareError, batches>>

\* The "Compare all tiers" toggle.
ToggleCompare ==
    /\ compareMode' = ~compareMode
    /\ rtOp' = [op |-> "toggleCompare", batch |-> 0, outcome |-> NoOutcome]
    /\ UNCHANGED notRouting
    /\ UNCHANGED <<prompt, tier, singleMutation, compareResults, compareLoading,
                   compareError, batches>>

\* The POST /governance/chat requests of a send, in the order issued: one per
\* tier of tiers, each with body {message: prompt, task_tier: t}.
Requests(tiers, p) == [i \in 1..Len(tiers) |-> [message |-> p, task_tier |-> tiers[i]]]

\* handleSend: nothing for a blank prompt; in compare mode the three tier
\* requests are started behind Promise.allSettled; else singleMutation.mutate.
\* A send is recorded in batches with the prompt and tier it was sent with.
handleSend ==
    IF Trim(prompt) = << >>
    THEN /\ rtOp' = [op |-> "sendBlank", batch |-> 0, outcome |-> NoOutcome]
         /\ UNCHANGED <<singleMutation, compareResults, compareLoading, compareError, batches>>
    ELSE IF compareMode
    THEN /\ compareLoading' = TRUE
         /\ compareError' = NULL
         /\ compareResults' = [t \in TierSet |-> NoResponse]
         /\ batches' = Append(batches, [mode |-> "compare", prompt |-> prompt,
                                         tier |-> NULL, settled |-> FALSE,
                                         requests |-> Requests(Tiers, prompt)])
         /\ rtOp' = [op |-> "sendCompare", batch |-> Len(batches) + 1, outcome |-> NoOutcome]
         /\ UNCHANGED singleMutation
    ELSE /\ singleMutation' = [status |-> "pending", data |-> NoResponse,
                                variables |-> Response(Len(batches) + 1, tier, prompt)]
         /\ batches' = Append(batches, [mode |-> "single", prompt |-> prompt,
                                         tier |-> tier, settled |-> FALSE,
                                         requests |-> Requests(<<tier>>, prompt)])
         /\ rtOp' = [op |-> "sendSingle", batch |-> Len(batches) + 1, outcome |-> NoOutcome]
         /\ UNCHANGED <<compareResults, compareLoading, compareError>>

\* The send button, disabled for a blank prompt and while a request is pending.
ClickSend ==
    /\ Trim(prompt) # << >> /\ singleMutation.status # "pending" /\ ~compareLoading
    /\ Sends < MaxSends
    /\ handleSend
    /\ UNCHANGED notRouting
    /\ UNCHANGED <<prompt, tier, compareMode>>

\* onKeyDown: Enter with the meta or control key calls handleSend.
CtrlEnter ==
    /\ Sends < MaxSends
    /\ handleSend
    /\ UNCHANGED notRouting
    /\ UNCHANGED <<prompt, tier, compareMode>>

\* The outcomes of the three requests of a compare send.
Outcomes == [TierSet -> {"fulfilled", "rejected"}]

\* The then-callback with allFailed computed by some() instead of every().
ThenResult_AnyFailed(b, outcome) ==
    [results |-> [t \in TierSet |->
                    IF outcome[t] = "fulfilled" THEN Response(b, t, batches[b].prompt)
                    ELSE NoResponse],
     allFailed |-> \E t \in TierSet : outcome[t] = "rejected"]

\* The then-callback with every fulfilled response stored as the first tier's.
ThenResult_FirstTier(b, outcome) ==
    [results |-> [t \in TierSet |->
                    IF outcome[t] = "fulfilled" THEN Response(b, Tiers[1], batches[b].prompt)
                    ELSE NoResponse],
     allFailed |-> \A t \in TierSet : outcome[t] = "rejected"]

\* The then-callback of Promise.allSettled for send b whose requests settled
\* as outcome: next holds the response of every fulfilled tier, null for the
\* others; allFailed is results.every(r => r.status === "rejected").
ThenResult(b, outcome) ==
    [results |-> [t \in TierSet |->
                    IF outcome[t] = "fulfilled" THEN Response(b, t, batches[b].prompt)
                    ELSE NoResponse],
     allFailed |-> \A t \in TierSet : outcome[t] = "rejected"]

\* The three requests of compare send b have settled as outcome and the
\* then-callback of Promise.allSettled runs: setCompareError when all
\* failed, setCompareResults(next), setCompareLoading(false).
CompareSettled(b, outcome) ==
    /\ batches[b].mode = "compare" /\ ~batches[b].settled
    /\ batches' = [batches EXCEPT ![b].settled = TRUE]
    /\ compareError' = IF ThenResult(b, outcome).allFailed THEN AllFailedMessage
                       ELSE compareError
    /\ compareResults' = ThenResult(b, outcome).results
    /\ compareLoading' = FALSE
    /\ rtOp' = [op |-> "batchDone", batch |-> b, outcome |-> outcome]
    /\ UNCHANGED notRouting
    /\ UNCHANGED <<prompt, tier, compareMode, singleMutation>>

\* The request of single send b settles; the mutation observer follows only
\* the latest mutate call.
SingleSettled(b, how) ==
    /\ batches[b].mode = "single" /\ ~batches[b].settled
    /\ batches' = [batches EXCEPT ![b].settled = TRUE]
    /\ singleMutation' =
          IF singleMutation.status = "pending" /\ singleMutation.variables.batch = b
          THEN [singleMutation EXCEPT
                  !.status = IF how = "fulfilled" THEN "success" ELSE "error",
                  !.data = IF how = "fulfilled"
                           THEN Response(b, batches[b].tier, batches[b].prompt)
                           ELSE NoResponse]
          ELSE singleMutation
    /\ rtOp' = [op |-> "singleDone", batch |-> b,
                outcome |-> [NoOutcome EXCEPT ![batches[b].tier] = how]]
    /\ UNCHANGED notRouting
    /\ UNCHANGED <<prompt, tier, compareMode, compareResults, compareLoading, compareError>>

\* What the compare section shows: the error box, the spinner, and per tier
\* a response panel or a "Failed" card.
CompareView ==
    [error |-> compareMode /\ compareError # NULL,
     spinner |-> compareMode /\ compareLoading,
     cards |-> [t \in TierSet |->
                  IF compareMode /\ ~compareLoading
                     /\ (\E u \in TierSet : compareResults[u] # NoResponse)
                  THEN (IF compareResults[t] # NoResponse THEN "panel" ELSE "Failed")
                  ELSE "none"]]

RoutingNext ==
    \/ \E p \in Prompts : SetPrompt(p)
    \/ \E t \in TierSet : SetTier(t)
    \/ ToggleCompare
    \/ ClickSend
    \/ CtrlEnter
    \/ \E b \in 1..Len(batches) : \E outcome \in Outcomes : CompareSettled(b, outcome)
    \/ \E b \in 1..Len(batches) : \E how \in {"fulfilled", "rejected"} : SingleSettled(b, how)

(***************************************************************************)
(* Audit log                                                               *)
(***************************************************************************)
\* Bounds: the entries of a fetched dataset, and the page size (20 in the
\* source, scaled to the datasets explored).
MaxEntries == 3
PAGE_SIZE == 2

\* Text is a sequence of characters. Numbers are naturals; cost_usd is held
\* in units of 0.0001 USD.
ALL == <<"a", "l", "l">>

\* The entries a backend response is made of (AuditEntry without provider
\* and task_tier, which the page neither sorts by nor exports).
AuditPool ==
    { [id |-> 1, timestamp |-> <<"0", "1">>, department |-> <<"e", "n", "g">>,
       model |-> <<"A", "i">>, total_tokens |-> 10, cost_usd |-> 3, latency_ms |-> 7,
       status |-> <<"o", "k">>],
      [id |-> 2, timestamp |-> <<"0", "3">>, department |-> <<"O", "p", "s">>,
       model |-> <<"a", "i">>, total_tokens |-> 9, cost_usd |-> 3, latency_ms |-> 20,
       status |-> <<"e", "r", "r">>],
      [id |-> 3, timestamp |-> <<"0", "2">>, department |-> <<"e", "n", "g">>,
       model |-> <<"b", "o", "t">>, total_tokens |-> 9, cost_usd |-> 1, latency_ms |-> 7,
       status |-> <<"o", "k">>],
      [id |-> 10, timestamp |-> <<"0", "2">>, department |-> <<"O", "p", "s">>,
       model |-> <<"A", "i">>, total_tokens |-> 100, cost_usd |-> 0, latency_ms |-> 3,
       status |-> <<"E", "r", "r">>] }

\* The datasets fetched: arrays of distinct entries.
Datasets ==
    {ds \in UNION {[1..n -> AuditPool] : n \in 0..MaxEntries} :
        \A i, j \in 1..Len(ds) : i # j => ds[i] # ds[j]}

Searches == {<< >>, <<" ">>, <<"E", "R">>, <<"1">>}

\* The sortable columns, and the fields typed number in AuditEntry.
SortKeys ==
    {"timestamp", "department", "model", "total_tokens", "cost_usd", "latency_ms", "status"}
NumberFields == {"id", "total_tokens", "cost_usd", "latency_ms"}

Digits == <<"0", "1", "2", "3", "4", "5", "6", "7", "8", "9">>
UpperChars == <<"A", "E", "O", "R">>
LowerChars == <<"a", "e", "o", "r">>

\* The primary collation order of the characters used: blank, digits, letters.
CollationOrder ==
    <<" ", "0", "1", "2", "3", "4", "5", "6", "7", "8", "9",
      "a", "b", "e", "g", "i", "k", "l", "n", "o", "p", "r", "s", "t">>

\* String(n) for a natural number.
RECURSIVE NumberToString(_)
NumberToString(n) == IF n < 10 THEN <<Digits[n + 1]>> ELSE NumberToString(n \div 10) \o <<Digits[(n % 10) + 1]>>

Chars ==
    {CollationOrder[i] : i \in 1..Len(CollationOrder)} \cup {UpperChars[i] : i \in 1..Len(UpperChars)}

IsUpper(c) == IndexOf(UpperChars, c) >= 0
LowerOf(c) == IF IsUpper(c) THEN LowerChars[IndexOf(UpperChars, c) + 1] ELSE c

\* Per character: its lower case, its place among the letters, its case.
LowerCaseOf == [c \in Chars |-> LowerOf(c)]
LetterKey == [c \in Chars |-> IndexOf(CollationOrder, LowerOf(c))]
CaseKey == [c \in Chars |-> IF IsUpper(c) THEN 1 ELSE 0]

\* String.prototype.toLowerCase
ToLowerCase(str) == [i \in 1..Len(str) |-> LowerCaseOf[str[i]]]

\* String.prototype.includes
Includes(hay, needle) ==
    \E i \in 0..(Len(hay) - Len(needle)) : SubSeq(hay, i + 1, i + Len(needle)) = needle

\* Lexicographic comparison of two sequences of numbers: -1, 0 or 1.
RECURSIVE LexCompare(_, _)
LexCompare(x, y) ==
    IF x = << >> THEN (IF y = << >> THEN 0 ELSE -1)
    ELSE IF y = << >> THEN 1
    ELSE IF Head(x) < Head(y) THEN -1
    ELSE IF Head(x) > Head(y) THEN 1
    ELSE LexCompare(Tail(x), Tail(y))

\* String.prototype.localeCompare: the letters first, case apart; then,
\* between strings of the same letters, lower case before upper case.
LocaleCompare(sa, sb) ==
    LET primary(str) == [i \in 1..Len(str) |-> LetterKey[str[i]]]
        case(str) == [i \in 1..Len(str) |-> CaseKey[str[i]]]
        byLetters == LexCompare(primary(sa), primary(sb))
    IN  IF byLetters # 0 THEN byLetters ELSE LexCompare(case(sa), case(sb))

\* typeof v === "number" for the value of field key, and String(v).
IsNumber(key) == key \in NumberFields
StringOf(e, key) == IF IsNumber(key) THEN NumberToString(e[key]) ELSE e[key]

\* The comparator passed to sort.
Comparator(a, b, key, dir) ==
    IF IsNumber(key)
    THEN (IF dir = "asc" THEN a[key] - b[key] ELSE b[key] - a[key])
    ELSE (IF dir = "asc" THEN LocaleCompare(StringOf(a, key), StringOf(b, key))
          ELSE LocaleCompare(StringOf(b, key), StringOf(a, key)))

\* Array.prototype.sort, a stable sort: each element is inserted behind the
\* elements that do not compare greater than it.
RECURSIVE InsertSorted(_, _, _, _)
InsertSorted(sorted, e, key, dir) ==
    IF sorted = << >> THEN <<e>>
    ELSE IF Comparator(Head(sorted), e, key, dir) <= 0
    THEN <<Head(sorted)>> \o InsertSorted(Tail(sorted), e, key, dir)
    ELSE <<e>> \o sorted

RECURSIVE Sort(_, _, _)
Sort(arr, key, dir) ==
    IF arr = << >> THEN << >>
    ELSE InsertSorted(Sort(SubSeq(arr, 1, Len(arr) - 1), key, dir), arr[Len(arr)], key, dir)

\* The three filters of the memo applied to one entry.
Passes(e, dept, model, q) ==
    /\ dept # ALL => e.department = dept
    /\ model # ALL => e.model = model
    /\ Trim(q) # << >> =>
          \/ Includes(ToLowerCase(e.department), ToLowerCase(q))
          \/ Includes(ToLowerCase(e.model), ToLowerCase(q))
          \/ Includes(ToLowerCase(e.status), ToLowerCase(q))
          \/ Includes(NumberToString(e.id), ToLowerCase(q))

\* The memo sorting the array it holds in place: without a filter that array
\* is data.entries itself.
Memo_SortInPlace(entries, dept, model, q, key, dir) ==
    LET kept == SelectSeq(entries, LAMBDA e : Passes(e, dept, model, q))
        sorted == Sort(kept, key, dir)
        unfiltered == dept = ALL /\ model = ALL /\ Trim(q) = << >>
    IN  [filtered |-> sorted, entries |-> IF unfiltered THEN sorted ELSE entries]

\* The filtered memo over data.entries: the filters, then a sort of a copy.
\* It yields the memo value and data.entries as the evaluation leaves it.
Memo(entries, dept, model, q, key, dir) ==
    LET kept == SelectSeq(entries, LAMBDA e : Passes(e, dept, model, q))
    IN  [filtered |-> Sort(kept, key, dir), entries |-> entries]

departments == {auditQ.data[i].department : i \in 1..Len(auditQ.data)}
models == {auditQ.data[i].model : i \in 1..Len(auditQ.data)}

\* Math.ceil(filtered.length / PAGE_SIZE)
totalPages == (Len(filtered) + PAGE_SIZE - 1) \div PAGE_SIZE

Min(a, b) == IF a < b THEN a ELSE b

\* filtered.slice(page * PAGE_SIZE, (page + 1) * PAGE_SIZE)
pageEntries ==
    SubSeq(filtered, page * PAGE_SIZE + 1, Min((page + 1) * PAGE_SIZE, Len(filtered)))

headers ==
    << <<"ID">>, <<"Timestamp">>, <<"Department">>, <<"Model">>, <<"Tokens">>, <<"Cost">>,
       <<"Latency (ms)">>, <<"Status">> >>

\* The cells of the row of one entry, each as the string join makes of it.
Row(e) ==
    <<NumberToString(e.id), e.timestamp, e.department, e.model, NumberToString(e.total_tokens),
      NumberToString(e.cost_usd), NumberToString(e.latency_ms), e.status>>

\* Array.prototype.join
RECURSIVE Join(_, _)
Join(parts, sep) ==
    IF parts = << >> THEN << >>
    ELSE IF Len(parts) = 1 THEN parts[1]
    ELSE parts[1] \o <<sep>> \o Join(Tail(parts), sep)

NoFile == [made |-> FALSE, csv |-> << >>]

\* The lines of a text: its parts between line breaks.
RECURSIVE Lines(_)
Lines(text) ==
    IF \A i \in 1..Len(text) : text[i] # "\n" THEN <<text>>
    ELSE LET n == CHOOSE i \in 1..Len(text) :
                    text[i] = "\n" /\ \A j \in 1..(i - 1) : text[j] # "\n"
         IN  <<SubSeq(text, 1, n - 1)>> \o Lines(SubSeq(text, n + 1, Len(text)))

\* exportCsv writing the rows of the page shown.
exportCsv_CurrentPage(rows) ==
    IF Len(rows) = 0 THEN NoFile
    ELSE [made |-> TRUE,
          csv |-> Join(<<Join(headers, ",")>> \o [i \in 1..Len(pageEntries) |-> Join(Row(pageEntries[i]), ",")],
                       "\n")]

\* exportCsv over the memo value rows: nothing when it is empty, else the
\* download of the header and one joined row per entry.
exportCsv(rows) ==
    IF Len(rows) = 0 THEN NoFile
    ELSE [made |-> TRUE,
          csv |-> Join(<<Join(headers, ",")>> \o [i \in 1..Len(rows) |-> Join(Row(rows[i]), ",")],
                       "\n")]

AuditIdle ==
    /\ auditQ = [status |-> "loading", data |-> << >>]
    /\ search = << >>
    /\ deptFilter = ALL
    /\ modelFilter = ALL
    /\ sortKey = "timestamp"
    /\ sortDir = "desc"
    /\ page = 0
    /\ filtered = << >>
    /\ auOp = [op |-> "init", file |-> NoFile]

\* The render after a handler left the query as q and the state as given:
\* the memo is evaluated over data.entries.
Render(q, s, d, m, k, dr, p) ==
    /\ search' = s /\ deptFilter' = d /\ modelFilter' = m
    /\ sortKey' = k /\ sortDir' = dr /\ page' = p
    /\ IF q.status = "success"
       THEN LET memo == Memo(q.data, d, m, s, k, dr)
            IN  /\ filtered' = memo.filtered
                /\ auditQ' = [q EXCEPT !.data = memo.entries]
       ELSE /\ filtered' = << >>
            /\ auditQ' = q

FetchAuditOk(ds) ==
    /\ auditQ.status = "loading"
    /\ Render([status |-> "success", data |-> ds], search, deptFilter, modelFilter,
              sortKey, sortDir, page)
    /\ auOp' = [op |-> "handler", file |-> NoFile]
    /\ UNCHANGED notAudit

FetchAuditFail ==
    /\ auditQ.status = "loading"
    /\ Render([status |-> "error", data |-> << >>], search, deptFilter, modelFilter,
              sortKey, sortDir, page)
    /\ auOp' = [op |-> "handler", file |-> NoFile]
    /\ UNCHANGED notAudit

\* onChange of the search input.
SetSearch(q) ==
    /\ auditQ.status = "success" /\ q # search
    /\ Render(auditQ, q, deptFilter, modelFilter, sortKey, sortDir, 0)
    /\ auOp' = [op |-> "handler", file |-> NoFile]
    /\ UNCHANGED notAudit

\* onChange of the department select.
SetDeptFilter(d) ==
    /\ auditQ.status = "success" /\ d # deptFilter
    /\ Render(auditQ, search, d, modelFilter, sortKey, sortDir, 0)
    /\ auOp' = [op |-> "handler", file |-> NoFile]
    /\ UNCHANGED notAudit

\* onChange of the model select.
SetModelFilter(m) ==
    /\ auditQ.status = "success" /\ m # modelFilter
    /\ Render(auditQ, search, deptFilter, m, sortKey, sortDir, 0)
    /\ auOp' = [op |-> "handler", file |-> NoFile]
    /\ UNCHANGED notAudit

toggleSort(key) ==
    /\ auditQ.status = "success"
    /\ IF sortKey = key
       THEN Render(auditQ, search, deptFilter, modelFilter, sortKey,
                   IF sortDir = "asc" THEN "desc" ELSE "asc", 0)
       ELSE Render(auditQ, search, deptFilter, modelFilter, key, "desc", 0)
    /\ auOp' = [op |-> "handler", file |-> NoFile]
    /\ UNCHANGED notAudit

\* The pagination buttons, rendered when there is more than one page.
SetPage(p) ==
    /\ auditQ.status = "success" /\ totalPages > 1 /\ p # page
    /\ Render(auditQ, search, deptFilter, modelFilter, sortKey, sortDir, p)
    /\ auOp' = [op |-> "handler", file |-> NoFile]
    /\ UNCHANGED notAudit

\* The Export CSV button (disabled while filtered is empty).
ExportCsv ==
    /\ auditQ.status = "success"
    /\ auOp' = [op |-> "export", file |-> exportCsv(filtered)]
    /\ UNCHANGED <<auditQ, search, deptFilter, modelFilter, sortKey, sortDir, page, filtered>>
    /\ UNCHANGED notAudit

AuditNext ==
    \/ \E ds \in Datasets : FetchAuditOk(ds)
    \/ FetchAuditFail
    \/ \E q \in Searches : SetSearch(q)
    \/ \E d \in departments \cup {ALL} : SetDeptFilter(d)
    \/ \E m \in models \cup {ALL} : SetModelFilter(m)
    \/ \E key \in SortKeys : toggleSort(key)
    \/ \E p \in 0..(totalPages - 1) : SetPage(p)
    \/ ExportCsv

(***************************************************************************)
(* Scoring explorer                                                        *)
(***************************************************************************)
\* Bound: the workflows of a response.
MaxWorkflows == 2

Dims == {"revenue_impact", "headcount_pressure", "implementation_complexity",
         "self_service_potential"}

\* Weights are held in steps of 0.05 (the slider step), scores in units of
\* 0.01, so a weighted sum is in units of 0.0005.
DEFAULT_WEIGHTS ==
    [k \in Dims |-> CASE k = "revenue_impact" -> 6
                      [] k = "headcount_pressure" -> 4
                      [] OTHER -> 5]

\* The slider position explored, out of 0, 0.05, ..., 1: a slider is moved to 0.30.
SliderValues == {6}

\* The workflows a response is made of; composite is the backend's score.
WorkflowPool ==
    { [id |-> "a", scores |-> [revenue_impact |-> 500, headcount_pressure |-> 504,
                               implementation_complexity |-> 500,
                               self_service_potential |-> 500, composite |-> 501]],
      [id |-> "b", scores |-> [revenue_impact |-> 504, headcount_pressure |-> 500,
                               implementation_complexity |-> 500,
                               self_service_potential |-> 500, composite |-> 501]],
      [id |-> "c", scores |-> [revenue_impact |-> 520, headcount_pressure |-> 500,
                               implementation_complexity |-> 500,
                               self_service_potential |-> 480, composite |-> 501]] }

WorkflowLists ==
    {wfs \in UNION {[1..n -> WorkflowPool] : n \in 0..MaxWorkflows} :
        \A i, j \in 1..Len(wfs) : i # j => wfs[i] # wfs[j]}

\* data undefined.
NoData == [loaded |-> FALSE, workflows |-> << >>, weights |-> DEFAULT_WEIGHTS]

\* data?.workflows ?? []
workflows == scoreQ.data.workflows

\* The weighted sum of the four scores of wf, in units of 0.0005.
WeightedSum(wf, w) ==
    w["revenue_impact"] * wf.scores["revenue_impact"]
    + w["headcount_pressure"] * wf.scores["headcount_pressure"]
    + w["implementation_complexity"] * wf.scores["implementation_complexity"]
    + w["self_service_potential"] * wf.scores["self_service_potential"]

\* parseFloat(x.toFixed(2)) of a value in units of 0.0005, in units of 0.01.
\* (The scores explored are multiples of 0.04, so no sum lies halfway.)
ToFixed2(x) == (x + 10) \div 20

\* The map step of the memo: the workflow with its composite recomputed.
Rescored(wf, w) == [wf EXCEPT !.scores.composite = ToFixed2(WeightedSum(wf, w))]

\* sort((a, b) => b.scores.composite - a.scores.composite), a stable sort.
RECURSIVE InsertRanked(_, _)
InsertRanked(ranked, wf) ==
    IF ranked = << >> THEN <<wf>>
    ELSE IF wf.scores.composite - Head(ranked).scores.composite <= 0
    THEN <<Head(ranked)>> \o InsertRanked(Tail(ranked), wf)
    ELSE <<wf>> \o ranked

RECURSIVE SortRanked(_)
SortRanked(arr) ==
    IF arr = << >> THEN << >>
    ELSE InsertRanked(SortRanked(SubSeq(arr, 1, Len(arr) - 1)), arr[Len(arr)])

\* The memo without its sort.
Rank_FetchedOrder(wfs, w) == [i \in 1..Len(wfs) |-> Rescored(wfs[i], w)]

\* The rankedWorkflows memo over the workflows wfs and the weights w.
Rank(wfs, w) ==
    IF Len(wfs) = 0 THEN << >>
    ELSE SortRanked([i \in 1..Len(wfs) |-> Rescored(wfs[i], w)])

\* The render after a handler: the memo is evaluated over the workflows and
\* the weights the handler left.
RenderRanking == rankedWorkflows' = Rank(scoreQ'.data.workflows, weights')

\* The Map of id to index made of a list of workflows, as the list of ids.
RankingOf(wfs) == [i \in 1..Len(wfs) |-> wfs[i].id]

\* Object.values(weights).reduce((s, v) => s + v, 0)
totalWeight ==
    weights["revenue_impact"] + weights["headcount_pressure"]
    + weights["implementation_complexity"] + weights["self_service_potential"]

\* Math.abs(totalWeight - 1) > 0.01, with weights in steps of 0.05.
WeightsOff == totalWeight # 20

\* The page body is rendered: neither the spinner nor the error text.
ScoringShown ==
    /\ ~(scoreQ.status = "pending" /\ scoreQ.fetching /\ Len(workflows) = 0)
    /\ ~(scoreQ.status = "error" /\ Len(workflows) = 0)

ScoringIdle ==
    /\ scoreQ = [status |-> "pending", fetching |-> TRUE, data |-> NoData]
    /\ weights = DEFAULT_WEIGHTS
    /\ prevRanking = << >>
    /\ isInitialLoad = TRUE
    /\ saveMutation = [status |-> "idle", variables |-> DEFAULT_WEIGHTS]
    /\ scBackend = DEFAULT_WEIGHTS
    /\ rankedWorkflows = << >>
    /\ scOp = "init"

\* The backend starts with weights of its own.
ScoringInit ==
    /\ scoreQ = [status |-> "pending", fetching |-> TRUE, data |-> NoData]
    /\ weights = DEFAULT_WEIGHTS
    /\ prevRanking = << >>
    /\ isInitialLoad = TRUE
    /\ saveMutation = [status |-> "idle", variables |-> DEFAULT_WEIGHTS]
    /\ scBackend \in {DEFAULT_WEIGHTS, [k \in Dims |-> 5]}
    /\ rankedWorkflows = << >>
    /\ scOp = "init"

\* GET /discovery/workflows answers. The two effects run after the render:
\* the first snapshots the first non-empty list, the second sets the
\* weights when data.weights is not the value it was.
FetchWorkflowsOk(wfs) ==
    /\ scoreQ.fetching
    /\ scoreQ' = [status |-> "success", fetching |-> FALSE,
                  data |-> [loaded |-> TRUE, workflows |-> wfs, weights |-> scBackend]]
    /\ IF Len(wfs) > 0 /\ isInitialLoad
       THEN prevRanking' = RankingOf(wfs) /\ isInitialLoad' = FALSE
       ELSE UNCHANGED <<prevRanking, isInitialLoad>>
    /\ weights' = IF ~scoreQ.data.loaded \/ scoreQ.data.weights # scBackend
                  THEN scBackend ELSE weights
    /\ scOp' = "other"
    /\ UNCHANGED notScoring
    /\ UNCHANGED <<saveMutation, scBackend>>
    /\ RenderRanking

FetchWorkflowsFail ==
    /\ scoreQ.fetching
    /\ scoreQ' = [scoreQ EXCEPT !.fetching = FALSE,
                                !.status = IF scoreQ.data.loaded THEN @ ELSE "error"]
    /\ scOp' = "other"
    /\ UNCHANGED notScoring
    /\ UNCHANGED <<weights, prevRanking, isInitialLoad, saveMutation, scBackend>>
    /\ RenderRanking

\* A slider is moved.
handleWeightChange(key, value) ==
    /\ ScoringShown /\ weights[key] # value
    /\ weights' = [weights EXCEPT ![key] = value]
    /\ scOp' = "weightChange"
    /\ UNCHANGED notScoring
    /\ UNCHANGED <<scoreQ, prevRanking, isInitialLoad, saveMutation, scBackend>>
    /\ RenderRanking

handleReset ==
    /\ ScoringShown
    /\ prevRanking' = RankingOf(rankedWorkflows)
    /\ weights' = DEFAULT_WEIGHTS
    /\ scOp' = "other"
    /\ UNCHANGED notScoring
    /\ UNCHANGED <<scoreQ, isInitialLoad, saveMutation, scBackend>>
    /\ RenderRanking

\* The "Save & Re-rank" button: saveMutation.mutate(weights).
ClickSave ==
    /\ ScoringShown /\ saveMutation.status # "pending" /\ ~WeightsOff
    /\ saveMutation' = [status |-> "pending", variables |-> weights]
    /\ scOp' = "other"
    /\ UNCHANGED notScoring
    /\ UNCHANGED <<scoreQ, weights, prevRanking, isInitialLoad, scBackend>>
    /\ RenderRanking

\* PUT /discovery/score-weights succeeds: onSuccess snapshots the ranking
\* and invalidates the workflows query, which refetches.
SaveOk ==
    /\ saveMutation.status = "pending"
    /\ scBackend' = saveMutation.variables
    /\ saveMutation' = [saveMutation EXCEPT !.status = "success"]
    /\ prevRanking' = RankingOf(rankedWorkflows)
    /\ scoreQ' = [scoreQ EXCEPT !.fetching = TRUE]
    /\ scOp' = "other"
    /\ UNCHANGED notScoring
    /\ UNCHANGED <<weights, isInitialLoad>>
    /\ RenderRanking

SaveFail ==
    /\ saveMutation.status = "pending"
    /\ saveMutation' = [saveMutation EXCEPT !.status = "error"]
    /\ scOp' = "other"
    /\ UNCHANGED notScoring
    /\ UNCHANGED <<scoreQ, weights, prevRanking, isInitialLoad, scBackend>>
    /\ RenderRanking

ScoringNext ==
    \/ \E wfs \in WorkflowLists : FetchWorkflowsOk(wfs)
    \/ FetchWorkflowsFail
    \/ \E key \in Dims : \E value \in SliderValues : handleWeightChange(key, value)
    \/ handleReset
    \/ ClickSave
    \/ SaveOk
    \/ SaveFail

(***************************************************************************)
(* Onboarding status detail view                                           *)
(***************************************************************************)
OnboardingIds == {1, 2}

\* Bounds of a run: sockets constructed, message events, backend status changes.
MaxSockets == 2
MaxMsgs == 2
MaxChanges == 1

\* event.data as a sequence of JSON tokens.
JSONStrings == {"\"status\"", "\"completed\"", "\"failed\""}
JSONLiterals == {"null", "true", "false"}

Payloads ==
    { << "{", "\"status\"", ":", "\"completed\"", "}" >>,   \* a WsMessage object
      << "null" >>,                                          \* JSON, but no object
      << "{", "\"status\"", ":" >> }                         \* a truncated object

RECURSIVE ParseValue(_, _), ParseMembers(_, _)
\* The position after the JSON value that starts at toks[i]; 0 when there is none.
ParseValue(toks, i) ==
    IF i > Len(toks) THEN 0
    ELSE IF toks[i] \in JSONStrings \cup JSONLiterals THEN i + 1
    ELSE IF toks[i] = "{"
         THEN IF i + 1 <= Len(toks) /\ toks[i + 1] = "}" THEN i + 2
              ELSE ParseMembers(toks, i + 1)
    ELSE 0

\* The position after the "}" that ends the members starting at toks[i]; 0 on a syntax error.
ParseMembers(toks, i) ==
    IF i + 2 > Len(toks) \/ toks[i] \notin JSONStrings \/ toks[i + 1] # ":" THEN 0
    ELSE LET v == ParseValue(toks, i + 2) IN
         IF v = 0 \/ v > Len(toks) THEN 0
         ELSE IF toks[v] = "}" THEN v + 1
         ELSE IF toks[v] = "," THEN ParseMembers(toks, v + 1)
         ELSE 0

\* JSON.parse that accepts every payload as a message.
JSONParse_AcceptsAll(toks) ==
    [ok |-> TRUE, kind |-> "text", status |-> NULL]

\* JSON.parse(event.data): ok is FALSE where JSON.parse throws a SyntaxError.
JSONParse(toks) ==
    IF ParseValue(toks, 1) # Len(toks) + 1
    THEN [ok |-> FALSE, kind |-> "error", status |-> NULL]
    ELSE IF toks[1] = "{"
         THEN [ok |-> TRUE, kind |-> "object",
               status |-> IF Len(toks) >= 4 /\ toks[2] = "\"status\"" THEN toks[4] ELSE NULL]
         ELSE [ok |-> TRUE, kind |-> toks[1], status |-> NULL]

\* react-query's isLoading and error of the status query of the view's id.
StatusQueryOf(id) ==
    IF id = NoId THEN [status |-> "pending", fetching |-> FALSE, data |-> -1]
    ELSE statusQ[id]

\* What StatusDetailView renders.
StatusView ==
    IF viewId = NoId THEN "list"
    ELSE IF StatusQueryOf(viewId).status = "pending" /\ StatusQueryOf(viewId).fetching THEN "loading"
    ELSE IF StatusQueryOf(viewId).status = "error" THEN "error"
    ELSE IF StatusQueryOf(viewId).data = -1 THEN "blank"
    ELSE "detail"

\* The sockets on which close() has not been called.
Unclosed == {i \in 1..Len(sockets) : ~sockets[i].closeCalled}

\* The record of an operation that is no message event.
Op(name) == [op |-> name, socket |-> 0, payload |-> << >>, invalidated |-> NoId]

StatusIdle ==
    /\ obBackend = [i \in OnboardingIds |-> 0]
    /\ viewId = NoId
    /\ effectId = NoId
    /\ sockets = << >>
    /\ wsRef = 0
    /\ wsMessages = << >>
    /\ statusQ = [i \in OnboardingIds |->
                    [status |-> "pending", fetching |-> FALSE, data |-> -1]]
    /\ obCount = [msgs |-> 0, changes |-> 0]
    /\ obOp = Op("init")

\* The page opens on the list view: no StatusDetailView is mounted yet.
StatusInit == StatusIdle

\* The page opens on /onboarding/status?id=...: the first render of
\* StatusDetailView is committed, its query is being fetched and its effect
\* has not run yet.
MountedInit ==
    /\ obBackend = [i \in OnboardingIds |-> 0]
    /\ viewId \in OnboardingIds
    /\ effectId = NoId
    /\ sockets = << >>
    /\ wsRef = 0
    /\ wsMessages = << >>
    /\ statusQ = [i \in OnboardingIds |->
                    [status |-> "pending", fetching |-> (i = viewId), data |-> -1]]
    /\ obCount = [msgs |-> 0, changes |-> 0]
    /\ obOp = Op("init")

\* The id in the URL changes (searchParams.get("id")) and React commits the
\* render: StatusDetailView mounts, gets a new id prop, or unmounts. Its state
\* is kept while it stays mounted and dropped when it unmounts; the query of
\* the new id is observed and fetched. Pending passive effects are flushed
\* before the next render.
Navigate(id) ==
    /\ id # viewId /\ effectId = viewId
    /\ id # NoId => Len(sockets) < MaxSockets
    /\ viewId' = id
    /\ wsMessages' = IF id = NoId \/ viewId = NoId THEN << >> ELSE wsMessages
    /\ statusQ' = IF id = NoId THEN statusQ
                  ELSE [statusQ EXCEPT ![id].fetching = TRUE]
    /\ obOp' = Op("navigate")
    /\ UNCHANGED notStatus
    /\ UNCHANGED <<obBackend, effectId, sockets, wsRef, obCount>>

\* The effect's cleanup: ws.close(); wsRef.current = null. A socket on which
\* close() was called delivers no further event to the view.
CleanedUp(socks) ==
    IF effectId = NoId \/ wsRef = 0 THEN socks
    ELSE [socks EXCEPT ![wsRef].closeCalled = TRUE, ![wsRef].ready = "closed"]

\* The effect's body: new WebSocket(.../onboarding/ws/{id}), wsRef.current = ws,
\* with onmessage and onerror attached.
NewSocket(id) == [id |-> id, closeCalled |-> FALSE, ready |-> "connecting", dropped |-> 0]

\* The effect without its cleanup: the previous socket is left open.
FlushEffects_NoCleanup ==
    /\ effectId # viewId
    /\ sockets' = IF viewId = NoId THEN sockets ELSE Append(sockets, NewSocket(viewId))
    /\ wsRef' = IF viewId = NoId THEN 0 ELSE Len(sockets) + 1
    /\ effectId' = viewId
    /\ obOp' = Op("effect")
    /\ UNCHANGED notStatus
    /\ UNCHANGED <<obBackend, viewId, wsMessages, statusQ, obCount>>

\* React flushes the passive effects of the last commit: the cleanup of the
\* effect that ran for the previous id, then the effect for the new id
\* (useEffect with deps [id, queryClient]); on unmount only the cleanup.
FlushEffects ==
    /\ effectId # viewId
    /\ sockets' = IF viewId = NoId THEN CleanedUp(sockets)
                  ELSE Append(CleanedUp(sockets), NewSocket(viewId))
    /\ wsRef' = IF viewId = NoId THEN 0 ELSE Len(sockets) + 1
    /\ effectId' = viewId
    /\ obOp' = Op("effect")
    /\ UNCHANGED notStatus
    /\ UNCHANGED <<obBackend, viewId, wsMessages, statusQ, obCount>>

\* A socket is live while close() was not called on it and it has not closed.
Live(i) == ~sockets[i].closeCalled /\ sockets[i].ready # "closed"

\* The connection of socket i is established.
WsOpen(i) ==
    /\ Live(i) /\ sockets[i].ready = "connecting"
    /\ sockets' = [sockets EXCEPT ![i].ready = "open"]
    /\ obOp' = Op("wsOpen")
    /\ UNCHANGED notStatus
    /\ UNCHANGED <<obBackend, viewId, effectId, wsRef, wsMessages, statusQ,
                   obCount>>

\* ws.onerror with a handler that puts the status query into its error state.
WsError_SetsError(i) ==
    /\ Live(i)
    /\ sockets' = [sockets EXCEPT ![i].ready = "closed"]
    /\ statusQ' = [statusQ EXCEPT ![sockets[i].id].status = "error"]
    /\ obOp' = Op("wsError")
    /\ UNCHANGED notStatus
    /\ UNCHANGED <<obBackend, viewId, effectId, wsRef, wsMessages,
                   obCount>>

\* The connection of socket i fails: ws.onerror runs (it does nothing) and the
\* socket closes.
WsError(i) ==
    /\ Live(i)
    /\ sockets' = [sockets EXCEPT ![i].ready = "closed"]
    /\ obOp' = Op("wsError")
    /\ UNCHANGED notStatus
    /\ UNCHANGED <<obBackend, viewId, effectId, wsRef, wsMessages, statusQ,
                   obCount>>

\* The server closes socket i; the view attaches no onclose handler.
WsClose(i) ==
    /\ Live(i) /\ sockets[i].ready = "open"
    /\ sockets' = [sockets EXCEPT ![i].ready = "closed"]
    /\ obOp' = Op("wsClose")
    /\ UNCHANGED notStatus
    /\ UNCHANGED <<obBackend, viewId, effectId, wsRef, wsMessages, statusQ,
                   obCount>>

\* queryClient.invalidateQueries({queryKey: ["onboarding-status", id]}): an
\* observed query is refetched. Any other is only marked stale, which nothing
\* reads: with the default staleTime of 0 a query is fetched on mount anyway.
InvalidatedStatus(id) ==
    IF viewId = id THEN [statusQ EXCEPT ![id].fetching = TRUE]
    ELSE statusQ

\* ws.onmessage without the try/catch guarding the log: whatever arrives is logged.
OnMessage_LogsUnparsed(i, payload) ==
    /\ Live(i) /\ sockets[i].ready = "open" /\ obCount.msgs < MaxMsgs
    /\ wsMessages' = IF viewId = NoId THEN wsMessages
                     ELSE Append(wsMessages, [from |-> i, msg |-> JSONParse(payload)])
    /\ sockets' = sockets
    /\ UNCHANGED statusQ
    /\ obCount' = [obCount EXCEPT !.msgs = @ + 1]
    /\ obOp' = [op |-> "wsMessage", socket |-> i, payload |-> payload, invalidated |-> NoId]
    /\ UNCHANGED notStatus
    /\ UNCHANGED <<obBackend, viewId, effectId, wsRef>>

\* ws.onmessage with the message put in front of the log: [msg, ...prev].
OnMessage_Prepends(i, payload) ==
    /\ Live(i) /\ sockets[i].ready = "open" /\ obCount.msgs < MaxMsgs
    /\ IF JSONParse(payload).ok
       THEN /\ wsMessages' = IF viewId = NoId THEN wsMessages
                             ELSE <<[from |-> i, msg |-> JSONParse(payload)]>> \o wsMessages
            /\ statusQ' = InvalidatedStatus(sockets[i].id)
            /\ sockets' = sockets
       ELSE /\ sockets' = [sockets EXCEPT ![i].dropped = 1]
            /\ UNCHANGED <<wsMessages, statusQ>>
    /\ obCount' = [obCount EXCEPT !.msgs = @ + 1]
    /\ obOp' = [op |-> "wsMessage", socket |-> i, payload |-> payload,
                invalidated |-> IF JSONParse(payload).ok THEN sockets[i].id ELSE NoId]
    /\ UNCHANGED notStatus
    /\ UNCHANGED <<obBackend, viewId, effectId, wsRef>>

\* ws.onmessage of socket i, opened by the effect that ran for sockets[i].id:
\* a payload JSON.parse accepts is appended to the log (a state update of an
\* unmounted component is dropped) and the status query of that id is
\* invalidated; a SyntaxError is caught and ignored.
OnMessage(i, payload) ==
    /\ Live(i) /\ sockets[i].ready = "open" /\ obCount.msgs < MaxMsgs
    /\ IF JSONParse(payload).ok
       THEN /\ wsMessages' = IF viewId = NoId THEN wsMessages
                             ELSE Append(wsMessages, [from |-> i, msg |-> JSONParse(payload)])
            /\ statusQ' = InvalidatedStatus(sockets[i].id)
            /\ sockets' = sockets
       ELSE /\ sockets' = [sockets EXCEPT ![i].dropped = 1]
            /\ UNCHANGED <<wsMessages, statusQ>>
    /\ obCount' = [obCount EXCEPT !.msgs = @ + 1]
    /\ obOp' = [op |-> "wsMessage", socket |-> i, payload |-> payload,
                invalidated |-> IF JSONParse(payload).ok THEN sockets[i].id ELSE NoId]
    /\ UNCHANGED notStatus
    /\ UNCHANGED <<obBackend, viewId, effectId, wsRef>>

\* refetchInterval: 5_000: the interval of the observed query fires.
PollTick ==
    /\ viewId # NoId /\ ~statusQ[viewId].fetching
    /\ statusQ' = [statusQ EXCEPT ![viewId].fetching = TRUE]
    /\ obOp' = Op("pollTick")
    /\ UNCHANGED notStatus
    /\ UNCHANGED <<obBackend, viewId, effectId, sockets, wsRef, wsMessages,
                   obCount>>

\* The response of GET /onboarding/status/{id} arrives.
FetchStatusOk(id) ==
    /\ statusQ[id].fetching
    /\ statusQ' = [statusQ EXCEPT ![id] =
                      [status |-> "success", fetching |-> FALSE, data |-> obBackend[id]]]
    /\ obOp' = Op("fetchStatusOk")
    /\ UNCHANGED notStatus
    /\ UNCHANGED <<obBackend, viewId, effectId, sockets, wsRef, wsMessages,
                   obCount>>

\* GET /onboarding/status/{id} fails: the query goes to its error state.
FetchStatusFail(id) ==
    /\ statusQ[id].fetching
    /\ statusQ' = [statusQ EXCEPT ![id].status = "error", ![id].fetching = FALSE]
    /\ obOp' = Op("fetchStatusFail")
    /\ UNCHANGED notStatus
    /\ UNCHANGED <<obBackend, viewId, effectId, sockets, wsRef, wsMessages,
                   obCount>>

\* The onboarding workflow advances on the backend.
BackendChange(id) ==
    /\ obCount.changes < MaxChanges
    /\ obBackend' = [obBackend EXCEPT ![id] = @ + 1]
    /\ obCount' = [obCount EXCEPT !.changes = @ + 1]
    /\ obOp' = Op("backendChange")
    /\ UNCHANGED notStatus
    /\ UNCHANGED <<viewId, effectId, sockets, wsRef, wsMessages, statusQ>>

\* The view: navigation, effects, socket events, polling and fetch responses.
StatusNext ==
    \/ \E id \in OnboardingIds \cup {NoId} : Navigate(id)
    \/ FlushEffects
    \/ \E i \in 1..Len(sockets) : WsOpen(i)
    \/ \E i \in 1..Len(sockets) : WsError(i)
    \/ \E i \in 1..Len(sockets) : WsClose(i)
    \/ \E i \in 1..Len(sockets) : \E payload \in Payloads : OnMessage(i, payload)
    \/ PollTick
    \/ \E id \in OnboardingIds : FetchStatusOk(id)
    \/ \E id \in OnboardingIds : FetchStatusFail(id)

\* One mounted period of the view, with the backend's status changing under it.
MountedNext ==
    \/ FlushEffects
    \/ \E i \in 1..Len(sockets) : WsOpen(i)
    \/ \E i \in 1..Len(sockets) : WsError(i)
    \/ \E i \in 1..Len(sockets) : WsClose(i)
    \/ \E i \in 1..Len(sockets) : \E payload \in Payloads : OnMessage(i, payload)
    \/ PollTick
    \/ \E id \in OnboardingIds : FetchStatusOk(id)
    \/ \E id \in OnboardingIds : FetchStatusFail(id)
    \/ \E id \in OnboardingIds : BackendChange(id)

(***************************************************************************)
(* Lifecycle pipeline page                                                 *)
(***************************************************************************)
PIPELINE_STATUSES ==
    << "proposed", "impact_assessed", "approved", "in_development", "deployed",
       "monitoring", "under_review", "on_hold", "retired" >>

\* The strings a project's status may hold: the backend owns the field, so the
\* page may also be handed a string outside the pipeline.
StatusStrings ==
    {PIPELINE_STATUSES[i] : i \in 1..Len(PIPELINE_STATUSES)} \cup {"", "archived"}

\* nextStatus with the element two positions ahead taken instead of the next one.
nextStatus_SkipsOne(current) ==
    LET idx == IndexOf(PIPELINE_STATUSES, current) IN
    IF idx = -1 \/ idx >= Len(PIPELINE_STATUSES) - 2 THEN NULL
    ELSE PIPELINE_STATUSES[idx + 3]

\* nextStatus without the check that skips on_hold and retired.
nextStatus_NoSkip(current) ==
    LET idx == IndexOf(PIPELINE_STATUSES, current) IN
    IF idx = -1 \/ idx >= Len(PIPELINE_STATUSES) - 1 THEN NULL
    ELSE PIPELINE_STATUSES[(idx + 1) + 1]

\* nextStatus(current): PIPELINE_STATUSES[idx + 1] (0-based), or null at the end,
\* for an unknown status, and when the next status is on_hold or retired.
nextStatus(current) ==
    LET idx == IndexOf(PIPELINE_STATUSES, current) IN
    IF idx = -1 \/ idx >= Len(PIPELINE_STATUSES) - 1 THEN NULL
    ELSE LET next == PIPELINE_STATUSES[(idx + 1) + 1] IN
         IF next = "on_hold" \/ next = "retired" THEN NULL ELSE next

ProjectIds == {1, 2}

\* The Advance button is clicked at most this often in a run.
MaxClicks == 2

\* The statuses the two projects start from on the backend.
InitStatuses(p) == IF p = 1 THEN StatusStrings ELSE {"monitoring"}

\* A react-query query before its first fetch has answered.
PendingQuery(fetching) ==
    [status |-> "pending", fetching |-> fetching, data |-> NULL, stale |-> FALSE]

\* The list query's data while undefined: no project has a status.
NoList == [p \in ProjectIds |-> NULL]

\* The detail query's cache entry of the project selected (useQuery with
\* queryKey ["aims","projects",selectedId], enabled only when an id is selected).
DetailOf(id) == IF id = NoId THEN PendingQuery(FALSE) ELSE detailQ[id]

detail == DetailOf(selectedId).data
detailLoading == DetailOf(selectedId).status = "pending" /\ DetailOf(selectedId).fetching
detailError == DetailOf(selectedId).status = "error"
isLoading == listQ.status = "pending" /\ listQ.fetching
isError == listQ.status = "error"

\* const advanceStatus = detail ? nextStatus(detail.status) : null
advanceStatus == IF detail # NULL THEN nextStatus(detail) ELSE NULL

\* The page body (board and drawer) is rendered only past the two early returns.
BodyRendered == ~isLoading /\ ~isError

\* The status of project p the board shows: the column its card sits in.
BoardStatus(p) ==
    IF BodyRendered /\ IndexOf(PIPELINE_STATUSES, listQ.data[p]) # -1
    THEN listQ.data[p] ELSE NULL

\* The status of project p the drawer shows.
DrawerStatus(p) ==
    IF BodyRendered /\ selectedId = p /\ detail # NULL /\ ~detailLoading
    THEN detail ELSE NULL

\* The Advance button is rendered, and enabled.
AdvanceButtonEnabled ==
    /\ BodyRendered /\ selectedId # NoId /\ detail # NULL /\ ~detailLoading
    /\ advanceStatus # NULL /\ advanceStatus # ""
    /\ mutation.status # "pending"

\* statusLabel(s): every "_" becomes a space and the first letter of every word
\* is upper-cased; the empty string stays empty.
statusLabel(s) ==
    CASE s = "proposed" -> "Proposed"
      [] s = "impact_assessed" -> "Impact Assessed"
      [] s = "approved" -> "Approved"
      [] s = "in_development" -> "In Development"
      [] s = "deployed" -> "Deployed"
      [] s = "monitoring" -> "Monitoring"
      [] s = "under_review" -> "Under Review"
      [] s = "on_hold" -> "On Hold"
      [] s = "retired" -> "Retired"
      [] s = "archived" -> "Archived"
      [] OTHER -> ""

\* The text of the success banner in the drawer, NULL while it is not displayed:
\* {transitionMutation.isSuccess && (... {statusLabel(advanceStatus ?? "")})}.
SuccessBanner ==
    IF BodyRendered /\ selectedId # NoId /\ detail # NULL /\ ~detailLoading
       /\ mutation.status = "success"
    THEN "Successfully transitioned to " \o statusLabel(IF advanceStatus # NULL THEN advanceStatus ELSE "")
    ELSE NULL

LifecycleIdle ==
    /\ backend = [p \in ProjectIds |-> "proposed"]
    /\ listQ = [PendingQuery(TRUE) EXCEPT !.data = NoList]
    /\ detailQ = [p \in ProjectIds |-> PendingQuery(FALSE)]
    /\ selectedId = NoId
    /\ mutation = [status |-> "idle", id |-> NoId, to_status |-> NULL]
    /\ nClicks = 0
    /\ lcOp = "init"

LifecycleInit ==
    /\ backend \in {f \in [ProjectIds -> StatusStrings] : \A p \in ProjectIds : f[p] \in InitStatuses(p)}
    /\ listQ = [PendingQuery(TRUE) EXCEPT !.data = NoList]
    /\ detailQ = [p \in ProjectIds |-> PendingQuery(FALSE)]
    /\ selectedId = NoId
    /\ mutation = [status |-> "idle", id |-> NoId, to_status |-> NULL]
    /\ nClicks = 0
    /\ lcOp = "init"

\* The response of GET /aims/projects arrives.
FetchProjectsOk ==
    /\ listQ.fetching
    /\ listQ' = [status |-> "success", fetching |-> FALSE, data |-> backend, stale |-> FALSE]
    /\ lcOp' = "fetchProjectsOk"
    /\ UNCHANGED notLifecycle
    /\ UNCHANGED <<backend, detailQ, selectedId, mutation, nClicks>>

\* GET /aims/projects fails: the data fetched before stays in the cache.
FetchProjectsFail ==
    /\ listQ.fetching
    /\ listQ' = [listQ EXCEPT !.status = "error", !.fetching = FALSE]
    /\ lcOp' = "fetchProjectsFail"
    /\ UNCHANGED notLifecycle
    /\ UNCHANGED <<backend, detailQ, selectedId, mutation, nClicks>>

\* The response of GET /aims/projects/{id} arrives.
FetchDetailOk(id) ==
    /\ detailQ[id].fetching
    /\ detailQ' = [detailQ EXCEPT ![id] =
                      [status |-> "success", fetching |-> FALSE, data |-> backend[id], stale |-> FALSE]]
    /\ lcOp' = "fetchDetailOk"
    /\ UNCHANGED notLifecycle
    /\ UNCHANGED <<backend, listQ, selectedId, mutation, nClicks>>

FetchDetailFail(id) ==
    /\ detailQ[id].fetching
    /\ detailQ' = [detailQ EXCEPT ![id].status = "error", ![id].fetching = FALSE]
    /\ lcOp' = "fetchDetailFail"
    /\ UNCHANGED notLifecycle
    /\ UNCHANGED <<backend, listQ, selectedId, mutation, nClicks>>

\* onClick={() => setSelectedId(project.id)}: the detail query of the project
\* becomes active; with the default staleTime of 0 it is fetched on mount.
SelectProject(id) ==
    /\ BodyRendered /\ BoardStatus(id) # NULL
    /\ selectedId' = id
    /\ detailQ' = [detailQ EXCEPT ![id].fetching = TRUE]
    /\ lcOp' = "select"
    /\ UNCHANGED notLifecycle
    /\ UNCHANGED <<backend, listQ, mutation, nClicks>>

\* onClick={() => setSelectedId(null)} (close button and overlay).
CloseDrawer ==
    /\ BodyRendered /\ selectedId # NoId
    /\ selectedId' = NoId
    /\ lcOp' = "close"
    /\ UNCHANGED notLifecycle
    /\ UNCHANGED <<backend, listQ, detailQ, mutation, nClicks>>

\* The Advance button with an optimistic update of the cached detail.
ClickAdvance_Optimistic ==
    /\ AdvanceButtonEnabled /\ nClicks < MaxClicks
    /\ nClicks' = nClicks + 1
    /\ mutation' = [status |-> "pending", id |-> selectedId, to_status |-> advanceStatus]
    /\ detailQ' = [detailQ EXCEPT ![selectedId].data = advanceStatus]
    /\ lcOp' = "clickAdvance"
    /\ UNCHANGED notLifecycle
    /\ UNCHANGED <<backend, listQ, selectedId>>

\* The Advance button: transitionMutation.mutate({id: detail.id, to_status: advanceStatus}).
ClickAdvance ==
    /\ AdvanceButtonEnabled /\ nClicks < MaxClicks
    /\ nClicks' = nClicks + 1
    /\ mutation' = [status |-> "pending", id |-> selectedId, to_status |-> advanceStatus]
    /\ lcOp' = "clickAdvance"
    /\ UNCHANGED notLifecycle
    /\ UNCHANGED <<backend, listQ, detailQ, selectedId>>

\* queryClient.invalidateQueries({queryKey: ["aims","projects"]}): the key is a
\* prefix, so the list query and every detail query match; an active query is
\* refetched at once, an inactive one is marked stale.
InvalidatedList == [listQ EXCEPT !.fetching = TRUE]

\* The invalidation with the exact key of the project selected only: the
\* detail queries of the other projects are left as they are.
InvalidatedDetails_SelectedOnly ==
    [p \in ProjectIds |->
        IF p = selectedId THEN [detailQ[p] EXCEPT !.fetching = TRUE] ELSE detailQ[p]]

InvalidatedDetails ==
    [p \in ProjectIds |->
        IF p = selectedId THEN [detailQ[p] EXCEPT !.fetching = TRUE]
        ELSE IF detailQ[p].status = "pending" /\ ~detailQ[p].fetching THEN detailQ[p]
        ELSE [detailQ[p] EXCEPT !.stale = TRUE]]

\* POST /aims/projects/{id}/transition succeeds: the backend has moved the
\* project, and onSuccess invalidates the queries.
TransitionOk ==
    /\ mutation.status = "pending"
    /\ backend' = [backend EXCEPT ![mutation.id] = mutation.to_status]
    /\ mutation' = [mutation EXCEPT !.status = "success"]
    /\ listQ' = InvalidatedList
    /\ detailQ' = InvalidatedDetails
    /\ lcOp' = "transitionOk"
    /\ UNCHANGED notLifecycle
    /\ UNCHANGED <<selectedId, nClicks>>

\* The transition request fails (rejected by the backend, or the network).
TransitionFail ==
    /\ mutation.status = "pending"
    /\ mutation' = [mutation EXCEPT !.status = "error"]
    /\ lcOp' = "transitionFail"
    /\ UNCHANGED notLifecycle
    /\ UNCHANGED <<backend, listQ, detailQ, selectedId, nClicks>>

LifecycleNext ==
    \/ FetchProjectsOk
    \/ FetchProjectsFail
    \/ \E id \in ProjectIds : FetchDetailOk(id)
    \/ \E id \in ProjectIds : FetchDetailFail(id)
    \/ \E id \in ProjectIds : SelectProject(id)
    \/ CloseDrawer
    \/ ClickAdvance
    \/ TransitionOk
    \/ TransitionFail

(***************************************************************************)
(* New-hire form                                                           *)
(***************************************************************************)
DEPARTMENTS ==
    << "Engineering", "Sales", "Marketing", "Support", "Product", "People",
       "Finance", "Legal", "IT" >>

\* The values typed into the name and the role field: empty, blank, and text
\* between blanks.
NameInputs == {<< >>, <<" ">>, <<" ", "J", "o", " ">>}
RoleInputs == {<< >>, <<" ", " ">>, <<"d", "e", "v", " ">>}

\* The options of the department select, the first being "Select a department".
DepartmentOptions == {""} \cup {DEPARTMENTS[i] : i \in 1..Len(DEPARTMENTS)}

\* The values of the date input: empty, or a date.
DateInputs == {"", "2025-01-15"}

\* mutation.variables before the first mutate.
NoPayload == [name |-> << >>, department |-> "", role |-> << >>, start_date |-> ""]

NewHireIdle ==
    /\ fullName = << >>
    /\ department = ""
    /\ role = << >>
    /\ startDate = ""
    /\ validationError = NULL
    /\ triggerMutation = [status |-> "idle", variables |-> NoPayload]
    /\ pushedId = NoId
    /\ nhOp = [op |-> "init", sent |-> FALSE]

\* The form is shown, and its fields and button are enabled
\* (disabled={mutation.isPending}).
FormEnabled == pushedId = NoId /\ triggerMutation.status # "pending"

\* onChange of the four fields.
SetName(v) ==
    /\ FormEnabled /\ v # fullName
    /\ fullName' = v
    /\ nhOp' = [op |-> "edit", sent |-> FALSE]
    /\ UNCHANGED notNewHire
    /\ UNCHANGED <<department, role, startDate, validationError, triggerMutation, pushedId>>

SetDepartment(v) ==
    /\ FormEnabled /\ v # department
    /\ department' = v
    /\ nhOp' = [op |-> "edit", sent |-> FALSE]
    /\ UNCHANGED notNewHire
    /\ UNCHANGED <<fullName, role, startDate, validationError, triggerMutation, pushedId>>

SetRole(v) ==
    /\ FormEnabled /\ v # role
    /\ role' = v
    /\ nhOp' = [op |-> "edit", sent |-> FALSE]
    /\ UNCHANGED notNewHire
    /\ UNCHANGED <<fullName, department, startDate, validationError, triggerMutation, pushedId>>

SetStartDate(v) ==
    /\ FormEnabled /\ v # startDate
    /\ startDate' = v
    /\ nhOp' = [op |-> "edit", sent |-> FALSE]
    /\ UNCHANGED notNewHire
    /\ UNCHANGED <<fullName, department, role, validationError, triggerMutation, pushedId>>

\* handleSubmit with the name tested and sent as typed, without trim().
handleSubmit_Untrimmed ==
    /\ FormEnabled
    /\ IF fullName = << >>
       THEN /\ validationError' = "Full name is required."
            /\ nhOp' = [op |-> "submit", sent |-> FALSE]
            /\ UNCHANGED triggerMutation
       ELSE IF department = ""
       THEN /\ validationError' = "Please select a department."
            /\ nhOp' = [op |-> "submit", sent |-> FALSE]
            /\ UNCHANGED triggerMutation
       ELSE IF Trim(role) = << >>
       THEN /\ validationError' = "Role is required."
            /\ nhOp' = [op |-> "submit", sent |-> FALSE]
            /\ UNCHANGED triggerMutation
       ELSE IF startDate = ""
       THEN /\ validationError' = "Start date is required."
            /\ nhOp' = [op |-> "submit", sent |-> FALSE]
            /\ UNCHANGED triggerMutation
       ELSE /\ validationError' = NULL
            /\ triggerMutation' =
                  [status |-> "pending",
                   variables |-> [name |-> fullName, department |-> department,
                                  role |-> Trim(role), start_date |-> startDate]]
            /\ nhOp' = [op |-> "submit", sent |-> TRUE]
    /\ UNCHANGED notNewHire
    /\ UNCHANGED <<fullName, department, role, startDate, pushedId>>

\* handleSubmit: setValidationError(null), then the first failing check sets
\* its message and returns; when all four pass, mutation.mutate with the
\* trimmed name and role.
handleSubmit ==
    /\ FormEnabled
    /\ IF Trim(fullName) = << >>
       THEN /\ validationError' = "Full name is required."
            /\ nhOp' = [op |-> "submit", sent |-> FALSE]
            /\ UNCHANGED triggerMutation
       ELSE IF department = ""
       THEN /\ validationError' = "Please select a department."
            /\ nhOp' = [op |-> "submit", sent |-> FALSE]
            /\ UNCHANGED triggerMutation
       ELSE IF Trim(role) = << >>
       THEN /\ validationError' = "Role is required."
            /\ nhOp' = [op |-> "submit", sent |-> FALSE]
            /\ UNCHANGED triggerMutation
       ELSE IF startDate = ""
       THEN /\ validationError' = "Start date is required."
            /\ nhOp' = [op |-> "submit", sent |-> FALSE]
            /\ UNCHANGED triggerMutation
       ELSE /\ validationError' = NULL
            /\ triggerMutation' =
                  [status |-> "pending",
                   variables |-> [name |-> Trim(fullName), department |-> department,
                                  role |-> Trim(role), start_date |-> startDate]]
            /\ nhOp' = [op |-> "submit", sent |-> TRUE]
    /\ UNCHANGED notNewHire
    /\ UNCHANGED <<fullName, department, role, startDate, pushedId>>

\* POST /onboarding/trigger answers with the id of the onboarding started:
\* onSuccess pushes the route of its status page.
TriggerOk(id) ==
    /\ pushedId = NoId /\ triggerMutation.status = "pending"
    /\ triggerMutation' = [triggerMutation EXCEPT !.status = "success"]
    /\ pushedId' = id
    /\ nhOp' = [op |-> "triggerOk", sent |-> FALSE]
    /\ UNCHANGED notNewHire
    /\ UNCHANGED <<fullName, department, role, startDate, validationError>>

\* The trigger request fails: the form stays, with the failure message.
TriggerFail ==
    /\ pushedId = NoId /\ triggerMutation.status = "pending"
    /\ triggerMutation' = [triggerMutation EXCEPT !.status = "error"]
    /\ nhOp' = [op |-> "triggerFail", sent |-> FALSE]
    /\ UNCHANGED notNewHire
    /\ UNCHANGED <<fullName, department, role, startDate, validationError, pushedId>>

NewHireNext ==
    \/ \E v \in NameInputs : SetName(v)
    \/ \E v \in DepartmentOptions : SetDepartment(v)
    \/ \E v \in RoleInputs : SetRole(v)
    \/ \E v \in DateInputs : SetStartDate(v)
    \/ handleSubmit
    \/ \E id \in OnboardingIds : TriggerOk(id)
    \/ TriggerFail

InitLifecyclePage ==
    LifecycleInit /\ StatusIdle /\ PagesIdle /\ RoutingIdle /\ AuditIdle /\ ScoringIdle
    /\ NewHireIdle

SpecLifecycle == InitLifecyclePage /\ [][LifecycleNext]_vars

\* Position of a status in the pipeline (0-based), -1 for any other string.
PipelineIndex(s) == IndexOf(PIPELINE_STATUSES, s)

\* C1: lifecycle advance is linear. For every status string s the page holds
\* (fetched into the list or a detail query, or on the backend), nextStatus(s)
\* is null or the pipeline status exactly one position after s: never s itself,
\* an earlier status, or one more than one position ahead.
C1_NextStatusLinear ==
    \A p \in ProjectIds :
        \A s \in {backend[p], listQ.data[p], detailQ[p].data} \ {NULL} :
            \/ nextStatus(s) = NULL
            \/ /\ PipelineIndex(s) # -1
               /\ PipelineIndex(nextStatus(s)) = PipelineIndex(s) + 1

\* C1 witness: the drawer shows a project in the middle of the pipeline and
\* offers to advance it to the status right after it.
C1_Witness ==
    /\ selectedId # NoId /\ detail = "approved" /\ advanceStatus = "in_development"
    /\ lcOp = "fetchDetailOk"

\* The statuses the page holds and shows.
HeldStatuses == <<listQ.data, [p \in ProjectIds |-> detailQ[p].data]>>
ShownStatuses == [p \in ProjectIds |-> <<BoardStatus(p), DrawerStatus(p)>>]

\* C2: the Advance button only calls the backend. A click changes no status
\* the page holds or shows; neither does a failed transition; and the held
\* statuses change only in a step in which a fetch response arrives.
C2_AdvanceOnlyCallsBackend ==
    [][ /\ (lcOp' \in {"clickAdvance", "transitionFail"}) =>
             (HeldStatuses' = HeldStatuses /\ ShownStatuses' = ShownStatuses)
        /\ (HeldStatuses' # HeldStatuses) =>
             (lcOp' \in {"fetchProjectsOk", "fetchDetailOk"}) ]_vars

\* C2 witness: a transition request has failed after a click, and the drawer
\* still shows the status it showed (the backend's, never advanced).
C2_Witness ==
    /\ lcOp = "transitionFail" /\ mutation.status = "error"
    /\ selectedId = mutation.id
    /\ DrawerStatus(selectedId) = backend[selectedId]
    /\ mutation.to_status = nextStatus(DrawerStatus(selectedId))

(***************************************************************************)
(* Specifications of the status view                                       *)
(***************************************************************************)
InitStatusPage ==
    StatusInit /\ LifecycleIdle /\ PagesIdle /\ RoutingIdle /\ AuditIdle /\ ScoringIdle
    /\ NewHireIdle

SpecStatus == InitStatusPage /\ [][StatusNext]_vars

\* The interval timer fires as long as the view is mounted, a request in
\* flight is answered, and a backend that is asked again and again answers
\* some request successfully.
MountedFairness ==
    /\ WF_vars(PollTick)
    /\ WF_vars(\E id \in OnboardingIds : FetchStatusOk(id) \/ FetchStatusFail(id))
    /\ \A id \in OnboardingIds : SF_vars(FetchStatusOk(id))

InitStatusMounted ==
    MountedInit /\ LifecycleIdle /\ PagesIdle /\ RoutingIdle /\ AuditIdle /\ ScoringIdle
    /\ NewHireIdle

SpecStatusMounted == InitStatusMounted /\ [][MountedNext]_vars /\ MountedFairness

InitPages ==
    PagesInit /\ LifecycleIdle /\ StatusIdle /\ RoutingIdle /\ AuditIdle /\ ScoringIdle
    /\ NewHireIdle

SpecPages == InitPages /\ [][PagesNext]_vars

InitRouting ==
    RoutingIdle /\ LifecycleIdle /\ StatusIdle /\ PagesIdle /\ AuditIdle /\ ScoringIdle
    /\ NewHireIdle

SpecRouting == InitRouting /\ [][RoutingNext]_vars

InitAudit ==
    AuditIdle /\ LifecycleIdle /\ StatusIdle /\ PagesIdle /\ RoutingIdle /\ ScoringIdle
    /\ NewHireIdle

SpecAudit == InitAudit /\ [][AuditNext]_vars

InitScoring ==
    ScoringInit /\ LifecycleIdle /\ StatusIdle /\ PagesIdle /\ RoutingIdle /\ AuditIdle
    /\ NewHireIdle

SpecScoring == InitScoring /\ [][ScoringNext]_vars

InitNewHire ==
    NewHireIdle /\ LifecycleIdle /\ StatusIdle /\ PagesIdle /\ RoutingIdle /\ AuditIdle
    /\ ScoringIdle

SpecNewHire == InitNewHire /\ [][NewHireNext]_vars

\* C3: malformed WebSocket messages are ignored. A message event whose payload
\* JSON.parse rejects leaves the decision log as it was, invalidates no query,
\* leaves the query cache as it was and the socket open and referenced; and a message
\* that parses is still logged on a socket that has ignored one before.
C3_MalformedIgnored ==
    [][ (obOp'.op = "wsMessage") =>
          LET i == obOp'.socket IN
          IF ~JSONParse(obOp'.payload).ok
          THEN /\ wsMessages' = wsMessages
               /\ obOp'.invalidated = NoId
               /\ statusQ' = statusQ
               /\ wsRef' = wsRef
               /\ ~sockets'[i].closeCalled /\ sockets'[i].ready = "open"
          ELSE (sockets[i].dropped = 1 /\ viewId # NoId) =>
                  wsMessages' = Append(wsMessages, [from |-> i, msg |-> JSONParse(obOp'.payload)])
      ]_vars

\* C3 witness: a socket that ignored a malformed message has just delivered a
\* well-formed one, which is the newest entry of the log.
C3_Witness ==
    /\ obOp.op = "wsMessage" /\ JSONParse(obOp.payload).ok
    /\ sockets[obOp.socket].dropped = 1
    /\ wsMessages # << >>
    /\ wsMessages[Len(wsMessages)].from = obOp.socket

\* C4: fallback to polling. While the view is mounted for an id, a WebSocket
\* error or close leaves the status query and the view as they were (no error
\* state, the query still observed), the status query is requested again and
\* again, and every status the backend reaches is eventually fetched and
\* displayed unless the backend has moved on from it.
C4_PollingFallback ==
    /\ [][ (obOp'.op \in {"wsError", "wsClose"}) =>
             (statusQ' = statusQ /\ viewId' = viewId /\ StatusView' = StatusView) ]_vars
    /\ \A id \in OnboardingIds :
          /\ []<>(viewId = id => statusQ[id].fetching)
          /\ \A v \in 0..MaxChanges :
                (viewId = id /\ obBackend[id] = v) ~>
                    \/ StatusView = "detail" /\ statusQ[id].data = v
                    \/ obBackend[id] # v

\* C4 witness: the socket has closed without ever delivering a message, and
\* the poll has fetched the status the backend changed to.
C4_Witness ==
    /\ viewId # NoId /\ obOp.op = "fetchStatusOk"
    /\ sockets # << >> /\ sockets[1].ready = "closed" /\ obCount.msgs = 0
    /\ obBackend[viewId] = 1 /\ statusQ[viewId].data = 1 /\ StatusView = "detail"

\* C5 as stated: at every moment at most one socket has not had close()
\* called, it was opened for the id the view currently displays, and an
\* unmounted view has none.
C5_SingleSocketAtEveryMoment ==
    /\ Cardinality(Unclosed) <= 1
    /\ \A i \in Unclosed : viewId # NoId /\ sockets[i].id = viewId

\* C5 as amended: at every moment at most one socket has not had close()
\* called; it is the newest socket, the one wsRef holds, opened for the id the
\* effect last ran for (so every earlier socket was closed before it was
\* opened); and once the effects of the latest render have run, it is the
\* socket of the id displayed, and none is left after an unmount.
C5_SingleSocket ==
    /\ Cardinality(Unclosed) <= 1
    /\ \A i \in Unclosed : i = Len(sockets) /\ i = wsRef /\ sockets[i].id = effectId
    /\ effectId = viewId => \A i \in Unclosed : viewId # NoId /\ sockets[i].id = viewId

\* C5 witness: the id has changed and the effects have run; the first socket
\* is closed and the second, for the new id, is the only open one.
C5_Witness ==
    /\ Len(sockets) = 2 /\ effectId = viewId /\ viewId # NoId
    /\ sockets[1].closeCalled /\ ~sockets[2].closeCalled
    /\ sockets[1].id # sockets[2].id /\ sockets[2].id = viewId

\* A failure message is among what the knowledge graph page renders.
KgShowsFailure == \E e \in KnowledgeGraphView : e \in {"Failed to load graph", "ErrorBox"}

\* C6: errors are handled by displaying a failure message. Whenever a
\* data-loading request of a page has failed, the page shows a failure
\* message, and what it renders is neither its loading state nor what it
\* renders for data that is empty.
C6_FailedLoadShown ==
    /\ (\E q \in GovQueries : govQ[q] = "error") =>
          GovernanceView \in {"Spinner", "ErrorBox: Failed to load cost data",
                              "ErrorBox: Failed to load forecast data"}
    /\ kgQ["fullGraph"].status = "error" =>
          (KgShowsFailure /\ GraphCanvas \notin {"Loading graph...", "ForceGraph2D (no nodes)"})
    /\ kgQ["insights"].status = "error" => (KgShowsFailure /\ InsightCards # "--")

\* C7 as stated: a compare send in which at least one of the three requests
\* fails ends as one in which all three fail: the error is set and no tier
\* result is held.
C7_NoPartialFailure ==
    (rtOp.op = "batchDone" /\ \E t \in TierSet : rtOp.outcome[t] = "rejected") =>
        /\ compareError = AllFailedMessage
        /\ \A t \in TierSet : compareResults[t] = NoResponse

\* C7, amended: the completion of a compare send clears the loading flag and
\* holds exactly the responses of the fulfilled tiers. When all three
\* requests failed it sets the error and no card is shown; when at least one
\* succeeded it leaves the error as it was and, in compare mode, shows a
\* panel for every fulfilled tier and a "Failed" card for every rejected one.
C7_PartialFailure ==
    [][ rtOp'.op = "batchDone" =>
          LET b == rtOp'.batch
              o == rtOp'.outcome
          IN  /\ compareLoading' = FALSE
              /\ \A t \in TierSet :
                    compareResults'[t] = IF o[t] = "fulfilled"
                                         THEN Response(b, t, batches[b].prompt)
                                         ELSE NoResponse
              /\ (\A t \in TierSet : o[t] = "rejected") =>
                    /\ compareError' = AllFailedMessage
                    /\ \A t \in TierSet : CompareView'.cards[t] = "none"
              /\ (\E t \in TierSet : o[t] = "fulfilled") =>
                    /\ compareError' = compareError
                    /\ compareMode' =>
                          \A t \in TierSet :
                              CompareView'.cards[t] =
                                  IF o[t] = "fulfilled" THEN "panel" ELSE "Failed" ]_vars

\* C7 witness: a compare send completed with one tier failed and another
\* answered; no error is shown, and the cards show both.
C7_Witness ==
    /\ rtOp.op = "batchDone" /\ compareMode
    /\ \E t, u \in TierSet :
          /\ rtOp.outcome[t] = "rejected" /\ CompareView.cards[t] = "Failed"
          /\ rtOp.outcome[u] = "fulfilled" /\ CompareView.cards[u] = "panel"
    /\ compareError = NULL /\ ~CompareView.error

\* C8: once the audit log is fetched, the filtered list is a permutation of
\* the entries of the fetched array that pass the three filters, ordered by
\* the sort key in the sort direction (by number for the number columns, by
\* string comparison for the others), and no operation of the page changes
\* the fetched array.
C8_AuditSort ==
    /\ [](auditQ.status = "success" =>
            LET passing == SelectSeq(auditQ.data,
                                     LAMBDA e : Passes(e, deptFilter, modelFilter, search))
                count(arr, e) == Cardinality({i \in 1..Len(arr) : arr[i] = e})
            IN  /\ Len(filtered) = Len(passing)
                /\ \A e \in AuditPool : count(filtered, e) = count(passing, e)
                /\ \A i, j \in 1..Len(filtered) :
                      i < j =>
                        LET a == filtered[i][sortKey]
                            b == filtered[j][sortKey]
                        IN  IF sortKey \in NumberFields
                            THEN (IF sortDir = "asc" THEN a <= b ELSE a >= b)
                            ELSE (IF sortDir = "asc" THEN LocaleCompare(a, b) <= 0
                                  ELSE LocaleCompare(a, b) >= 0))
    /\ [][auditQ.status = "success" => auditQ' = auditQ]_vars

\* C8 witness: a filter holds entries back, and the entries left are shown
\* by ascending token count in another order than the fetched array has.
C8_Witness ==
    /\ auditQ.status = "success" /\ auOp.op = "handler"
    /\ sortKey = "total_tokens" /\ sortDir = "asc"
    /\ Len(filtered) >= 2 /\ Len(filtered) < Len(auditQ.data)
    /\ filtered # SelectSeq(auditQ.data, LAMBDA e : Passes(e, deptFilter, modelFilter, search))
    /\ filtered[1].total_tokens < filtered[2].total_tokens

\* C9: an export makes no file when no entry passes the filters; else the
\* file is the header line followed by one line per entry passing the
\* filters, whatever the page shown, in the order of the filtered list.
C9_CsvExport ==
    auOp.op = "export" =>
        LET passing == SelectSeq(auditQ.data,
                                 LAMBDA e : Passes(e, deptFilter, modelFilter, search))
            lines == Lines(auOp.file.csv)
        IN  IF Len(passing) = 0 THEN auOp.file = NoFile
            ELSE /\ auOp.file.made
                 /\ Len(lines) = 1 + Len(passing)
                 /\ lines[1] = Join(headers, ",")
                 /\ Len(filtered) = Len(passing)
                 /\ \A i \in 1..Len(filtered) : lines[i + 1] = Join(Row(filtered[i]), ",")

\* C9 witness: an export from the second page of a list longer than a page.
C9_Witness ==
    /\ auOp.op = "export" /\ auOp.file.made
    /\ page = 1 /\ Len(filtered) > PAGE_SIZE /\ Len(pageEntries) < Len(filtered)
    /\ Len(Lines(auOp.file.csv)) = 1 + Len(filtered)

\* C10 as stated: the Live Ranking is in non-increasing order of the sum of
\* weight times score under the current slider weights.
C10_OrderedByWeightedSum ==
    \A i, j \in 1..Len(rankedWorkflows) :
        i < j =>
          \E a, b \in WorkflowPool :
              /\ a.id = rankedWorkflows[i].id /\ b.id = rankedWorkflows[j].id
              /\ WeightedSum(a, weights) >= WeightedSum(b, weights)

\* C10, amended: the Live Ranking holds every fetched workflow once; the
\* composite of each is the weighted sum of its four scores under the
\* current slider weights rounded to two decimals, and the ranking is in
\* non-increasing order of that rounded composite. A slider move starts no
\* backend request and touches neither the query nor the saved weights.
C10_Reranking ==
    /\ [](/\ Len(rankedWorkflows) = Len(workflows)
          /\ \A i \in 1..Len(workflows) :
                Cardinality({j \in 1..Len(rankedWorkflows) :
                                rankedWorkflows[j].id = workflows[i].id}) = 1
          /\ \A j \in 1..Len(rankedWorkflows) :
                \E i \in 1..Len(workflows) :
                    /\ rankedWorkflows[j].id = workflows[i].id
                    /\ rankedWorkflows[j].scores.composite * 20 - WeightedSum(workflows[i], weights)
                          \in -10..9
          /\ \A i, j \in 1..Len(rankedWorkflows) :
                i < j => rankedWorkflows[i].scores.composite >= rankedWorkflows[j].scores.composite)
    /\ [][scOp' = "weightChange" =>
             /\ scoreQ' = scoreQ /\ saveMutation' = saveMutation /\ scBackend' = scBackend
             /\ rankedWorkflows' = Rank(workflows, weights')
             /\ weights' # weights]_vars

\* C10 witness: a slider move after which the ranking is not in the order
\* fetched and its first composite is above its second.
C10_Witness ==
    /\ scOp = "weightChange" /\ Len(rankedWorkflows) >= 2
    /\ RankingOf(rankedWorkflows) # RankingOf(workflows)
    /\ rankedWorkflows[1].scores.composite > rankedWorkflows[2].scores.composite
    /\ ~scoreQ.fetching /\ saveMutation.status # "pending"

\* C11: whenever the "Successfully transitioned to X" banner is displayed in
\* the drawer, X is the label of the to_status sent in the transition request
\* that succeeded.
C11_BannerNamesSentStatus ==
    SuccessBanner # NULL =>
        SuccessBanner = "Successfully transitioned to " \o statusLabel(mutation.to_status)

\* C12: in the routing playground at most one send is in flight at any time,
\* and the results held belong to the send started last.
C12_OneSendInFlight ==
    /\ Cardinality({b \in 1..Len(batches) : ~batches[b].settled}) <= 1
    /\ \A t \in TierSet :
          compareResults[t] # NoResponse =>
              \A b \in 1..Len(batches) :
                  batches[b].mode = "compare" => b <= compareResults[t].batch

\* C13: every successful transition of a project P invalidates the projects
\* list query and the detail query of P: the list query, always observed, is
\* refetched; the detail query of P is refetched when P is the project
\* selected, and marked stale when the user selected another project or
\* closed the drawer while the request was pending.
C13_TransitionInvalidates ==
    [][ (mutation.status = "pending" /\ mutation'.status = "success") =>
          LET P == mutation.id IN
          /\ listQ'.fetching
          /\ IF selectedId = P THEN detailQ'[P].fetching ELSE detailQ'[P].stale ]_vars

\* C13 witness: a transition of project 1 has succeeded while project 2 was
\* selected; the list is being refetched and the detail of project 1 is stale.
C13_Witness ==
    /\ lcOp = "transitionOk" /\ mutation.status = "success" /\ mutation.id = 1
    /\ selectedId = 2
    /\ listQ.fetching /\ detailQ[1].stale /\ ~detailQ[1].fetching
    /\ backend[1] = mutation.to_status

C15_LogOfDisplayedId ==
    viewId # NoId =>
        \A k \in 1..Len(wsMessages) : sockets[wsMessages[k].from].id = viewId

\* C16: backend weights are applied to the sliders only as initialization:
\* once the workflow data has been loaded, the arrival of refetched data
\* leaves the slider values as they are, and the weights change only through
\* slider moves and Reset.
C16_WeightsOnlyInitialized ==
    [][ (scoreQ.data.loaded /\ scoreQ.fetching /\ ~scoreQ'.fetching) =>
            weights' = weights ]_vars

\* C17: a send in compare mode issues exactly three requests, one per tier,
\* each carrying the prompt as typed, sets the loading flag and holds no
\* result until its completion. The completion, which follows the settling
\* of all three, clears the loading flag and publishes the results: each
\* fulfilled response is held under its own tier and each rejected tier is
\* null, shown as "Failed" when another tier answered. The completion sets
\* the "All requests failed" error when all three were rejected and does not
\* touch the error otherwise, so after a send that found no error set the
\* error is shown if and only if all three were rejected.
C17_CompareOutcome ==
    [][ /\ rtOp'.op = "sendCompare" =>
              LET reqs == batches'[rtOp'.batch].requests IN
              /\ Len(batches') = Len(batches) + 1 /\ rtOp'.batch = Len(batches')
              /\ Len(reqs) = 3
              /\ \A t \in TierSet :
                    Cardinality({i \in 1..Len(reqs) : reqs[i].task_tier = t}) = 1
              /\ \A i \in 1..Len(reqs) : reqs[i].message = prompt
              /\ compareLoading' /\ compareError' = NULL
              /\ \A t \in TierSet : compareResults'[t] = NoResponse
        /\ (compareLoading /\ ~compareLoading') => rtOp'.op = "batchDone"
        /\ (\E t \in TierSet : compareResults'[t] # NoResponse
                                 /\ compareResults'[t] # compareResults[t])
              => rtOp'.op = "batchDone"
        /\ rtOp'.op = "batchDone" =>
              LET b == rtOp'.batch
                  o == rtOp'.outcome
                  allRejected == \A t \in TierSet : o[t] = "rejected"
              IN  /\ batches[b].mode = "compare" /\ ~batches[b].settled /\ batches'[b].settled
                  /\ \A t \in TierSet : o[t] \in {"fulfilled", "rejected"}
                  /\ ~compareLoading'
                  /\ \A t \in TierSet :
                        /\ o[t] = "fulfilled" =>
                              /\ compareResults'[t].batch = b
                              /\ compareResults'[t].task_tier = t
                              /\ \E i \in 1..3 :
                                    /\ batches[b].requests[i].task_tier = t
                                    /\ batches[b].requests[i].message = compareResults'[t].message
                        /\ o[t] = "rejected" => compareResults'[t] = NoResponse
                  /\ allRejected => compareError' = AllFailedMessage
                  /\ ~allRejected =>
                        /\ compareError' = compareError
                        /\ compareMode' =>
                              \A t \in TierSet :
                                  (o[t] = "rejected") = (CompareView'.cards[t] = "Failed")
                  /\ compareError = NULL => (allRejected <=> compareError' = AllFailedMessage)
      ]_vars

\* C17 witness: a compare send has completed with exactly one tier rejected:
\* the two responses are held under their tiers, the third card reads
\* "Failed", and no error is set.
C17_Witness ==
    /\ rtOp.op = "batchDone" /\ compareMode /\ ~compareLoading
    /\ Cardinality({t \in TierSet : rtOp.outcome[t] = "rejected"}) = 1
    /\ \A t \in TierSet :
          IF rtOp.outcome[t] = "rejected"
          THEN compareResults[t] = NoResponse /\ CompareView.cards[t] = "Failed"
          ELSE compareResults[t].task_tier = t /\ compareResults[t].batch = rtOp.batch
    /\ compareError = NULL
    /\ Len(batches[rtOp.batch].requests) = 3

\* C18: a submit of the new-hire form sends a trigger request if and only if
\* the trimmed name, the department, the trimmed role and the start date are
\* all non-empty; the request's payload carries the trimmed name and role
\* with the department and date as chosen, and no validation message is left.
\* Otherwise no request is sent and the validation message is the one of the
\* first failing field in the order name, department, role, start date,
\* whatever message was shown before. Nothing but such a submit starts a
\* request.
C18_SubmitValidation ==
    [][ /\ nhOp'.op = "submit" =>
              LET nameOk == Trim(fullName) # << >>
                  deptOk == department # ""
                  roleOk == Trim(role) # << >>
                  dateOk == startDate # ""
                  allOk == nameOk /\ deptOk /\ roleOk /\ dateOk
              IN  /\ nhOp'.sent <=> allOk
                  /\ allOk =>
                        /\ triggerMutation'.status = "pending"
                        /\ triggerMutation'.variables =
                              [name |-> Trim(fullName), department |-> department,
                               role |-> Trim(role), start_date |-> startDate]
                        /\ Head(triggerMutation'.variables.name) # " "
                        /\ triggerMutation'.variables.name[Len(triggerMutation'.variables.name)] # " "
                        /\ Head(triggerMutation'.variables.role) # " "
                        /\ triggerMutation'.variables.role[Len(triggerMutation'.variables.role)] # " "
                        /\ validationError' = NULL
                  /\ ~allOk =>
                        /\ triggerMutation' = triggerMutation
                        /\ validationError' =
                              IF ~nameOk THEN "Full name is required."
                              ELSE IF ~deptOk THEN "Please select a department."
                              ELSE IF ~roleOk THEN "Role is required."
                              ELSE "Start date is required."
        /\ (triggerMutation'.status = "pending" /\ triggerMutation.status # "pending") =>
              (nhOp'.op = "submit" /\ nhOp'.sent)
        /\ validationError' # validationError => nhOp'.op = "submit"
      ]_vars

\* C18 witness: a form whose name and role were typed with blanks around them
\* was submitted with all four fields filled; the request is pending with the
\* trimmed name and role and no validation message is shown.
C18_Witness ==
    /\ nhOp = [op |-> "submit", sent |-> TRUE]
    /\ fullName # Trim(fullName) /\ role # Trim(role)
    /\ triggerMutation.status = "pending"
    /\ triggerMutation.variables.name = Trim(fullName)
    /\ triggerMutation.variables.role = Trim(role)
    /\ validationError = NULL

\* C19: nextStatus never returns on_hold or retired: for every status string
\* the page holds it is null for under_review, on_hold, retired and any
\* string outside the pipeline. The Advance button is rendered only when
\* nextStatus of the status shown in the drawer is non-null, and every
\* transition requested, pending or settled, is into a status other than
\* on_hold and retired.
C19_NeverIntoHoldOrRetired ==
    /\ \A p \in ProjectIds :
          \A s \in {backend[p], listQ.data[p], detailQ[p].data} \ {NULL} :
              /\ nextStatus(s) \notin {"on_hold", "retired"}
              /\ (s \in {"under_review", "on_hold", "retired"}
                    \/ IndexOf(PIPELINE_STATUSES, s) = -1) => nextStatus(s) = NULL
    /\ (BodyRendered /\ selectedId # NoId /\ detail # NULL /\ ~detailLoading
           /\ advanceStatus # NULL /\ advanceStatus # "") =>
          /\ nextStatus(DrawerStatus(selectedId)) \notin {NULL, "on_hold", "retired"}
          /\ advanceStatus = nextStatus(DrawerStatus(selectedId))
    /\ AdvanceButtonEnabled => nextStatus(DrawerStatus(selectedId)) # NULL
    /\ mutation.status # "idle" =>
          mutation.to_status \notin {NULL, "", "on_hold", "retired"}

\* C19 witness: a project was advanced from monitoring to under_review and the
\* drawer shows the refetched detail: the status after it is on_hold, so
\* nextStatus is null and no Advance button is rendered.
C19_Witness ==
    /\ mutation.status = "success" /\ mutation.to_status = "under_review"
    /\ selectedId = mutation.id /\ DrawerStatus(selectedId) = "under_review"
    /\ nextStatus("under_review") = NULL /\ advanceStatus = NULL
    /\ ~AdvanceButtonEnabled

=============================================================================
